---- MODULE Spec2Model ----
(***************************************************************************)
(* Model of the marketing-campaign analytics pipeline:                     *)
(*   MarketingDataLoader / MarketingDataProcessor (loading, validation),    *)
(*   MarketingDataCleaner (cleaning), CohortAnalyzer (cohort matrices)      *)
(*   and run_analysis_pipeline (sequencing of the stages).                  *)
(*                                                                         *)
(* A pandas DataFrame is a sequence of rows; a row is a record keyed by     *)
(* column name.                                                            *)
(***************************************************************************)
EXTENDS Integers, Sequences, FiniteSets, TLC

VARIABLES
    csv,              \* the input file: [exists, header, rows] of raw cells
    raw_df,           \* what MarketingDataLoader.load_data returned
    proc_ok,          \* what MarketingDataProcessor.load_data returned
    df,               \* the DataFrame the Cleaner works on (mutated in place)
    summaries,        \* the cleaning summaries returned so far, oldest first
    cohort_df,        \* what create_cohorts returned
    metrics,          \* what calculate_cohort_metrics returned
    pc,               \* position in run_analysis_pipeline
    dirs,             \* directories that exist
    files,            \* files written
    called            \* stages of the pipeline that have started

vars == <<csv, raw_df, proc_ok, df, summaries, cohort_df, metrics, pc, dirs, files, called>>

----------------------------------------------------------------------------
(* Bounds of the model *)

MaxRawRows == 2       \* rows of an input file handed to the loaders
MaxRows == 2          \* rows of a DataFrame handed to the Cleaner
MaxCleanRuns == 2     \* successive applications of clean_data
MaxCohortRows == 3    \* rows of a DataFrame handed to the CohortAnalyzer
MaxPipelineRows == 5  \* rows of the input file of run_analysis_pipeline

----------------------------------------------------------------------------
(* Values.  TLC compares only values of one type, so every cell of a    *)
(* column has one shape: a numeric cell is [t, v], a date cell [t, y, m, d],  *)
(* a text cell a sequence of one-character strings (empty = missing).      *)

\* Numeric cells are fixed-point: the number x is held as x * Unit.  Unit
\* holds two decimals and the halvings of the medians the Cleaner takes.
Unit == 100 * (2^6)

Num(n) == [t |-> "num", v |-> n]
NaN == [t |-> "nan", v |-> 0]            \* a missing numeric cell
Bad == [t |-> "bad", v |-> 0]            \* a cell whose text is no number

DateOf(y, m, d) == [t |-> "date", y |-> y, m |-> m, d |-> d]
NaT == [t |-> "nan", y |-> 0, m |-> 0, d |-> 0]     \* a missing date
BadDate == [t |-> "bad", y |-> 0, m |-> 0, d |-> 0] \* text that is no date

IsNum(c) == c.t = "num"

Min(S) == CHOOSE x \in S : \A y \in S : x <= y
Max(S) == CHOOSE x \in S : \A y \in S : x >= y

SeqsUpTo(S, n) == UNION {[1..k -> S] : k \in 0..n}

----------------------------------------------------------------------------
(* Text: a string cell is a sequence of one-character strings *)

Digits == <<"0", "1", "2", "3", "4", "5", "6", "7", "8", "9">>

IsDigit(c) == \E d \in DOMAIN Digits : Digits[d] = c

DigitValue(c) == (CHOOSE d \in DOMAIN Digits : Digits[d] = c) - 1

RECURSIVE DigitsValue(_)
DigitsValue(s) ==
    IF s = <<>> THEN 0
    ELSE 10 * DigitsValue(SubSeq(s, 1, Len(s) - 1)) + DigitValue(s[Len(s)])

\* str.replace(ch, ''): every occurrence of the character is dropped
str_replace(s, ch) == SelectSeq(s, LAMBDA c : c # ch)

\* float(text) for plain decimal text, [-]digits[.digits]: [ok, v] with v
\* the value in hundredths (the texts of the model carry at most two
\* decimals); ok is FALSE where float() raises ValueError.
ParseFloat(s) ==
    LET neg  == s # <<>> /\ s[1] = "-"
        body == IF neg THEN Tail(s) ELSE s
        dots == {i \in DOMAIN body : body[i] = "."}
        dot  == IF dots = {} THEN Len(body) + 1 ELSE Min(dots)
        ip   == SubSeq(body, 1, dot - 1)
        fp   == SubSeq(body, dot + 1, Len(body))
        ok   == /\ Cardinality(dots) <= 1
                /\ Len(ip) + Len(fp) >= 1
                /\ Len(fp) <= 2
                /\ \A i \in DOMAIN ip : IsDigit(ip[i])
                /\ \A i \in DOMAIN fp : IsDigit(fp[i])
        frac == IF Len(fp) = 1 THEN 10 * DigitsValue(fp) ELSE DigitsValue(fp)
        mag  == 100 * DigitsValue(ip) + frac
    IN  IF ~ok THEN [ok |-> FALSE, v |-> 0]
        ELSE [ok |-> TRUE, v |-> IF neg THEN 0 - mag ELSE mag]

\* a numeric cell from the hundredths ParseFloat yields
FromHundredths(h) == Num(h * (Unit \div 100))

----------------------------------------------------------------------------
(* MarketingDataLoader *)

required_columns ==
    {"Campaign_ID", "Company", "Campaign_Type", "Target_Audience", "Duration",
     "Channel_Used", "Conversion_Rate", "Acquisition_Cost", "ROI", "Location",
     "Language", "Clicks", "Impressions", "Engagement_Score",
     "Customer_Segment", "Date"}

numeric_cols == {"Clicks", "Impressions", "Engagement_Score", "Conversion_Rate", "ROI"}

\* set(self.required_columns) - set(df.columns)
missing_cols_reversed(columns) == columns \ required_columns
missing_cols(columns) == required_columns \ columns

\* pd.to_datetime(df['Date']) raises on a cell that is no date
to_datetime_raises(rows) == \E i \in DOMAIN rows : rows[i].Date.t = "bad"

\* df[numeric_cols].apply(pd.to_numeric) raises on a cell that is no number
to_numeric_coerce(rows) == FALSE
to_numeric_raises(rows) ==
    \E i \in DOMAIN rows : \E c \in numeric_cols : rows[i][c].t = "bad"

\* read_csv infers the dtype of a column: it is float64/int64 when every
\* cell is empty or numeric text, and object (strings) otherwise; the columns
\* of a file with no data rows are object.
text_dtype_is_object(rows, col) ==
    \/ rows = <<>>
    \/ \E i \in DOMAIN rows : rows[i][col] # <<>> /\ ~ParseFloat(rows[i][col]).ok

\* .str.replace('$', '').str.replace(',', '')
strip_dollar_only(s) == str_replace(s, "$")
strip_currency(s) == str_replace(str_replace(s, "$"), ",")

\* .astype(float) of one stripped cell; a missing cell stays missing
cost_value(cell) == IF cell = <<>> THEN NaN
                    ELSE LET f == ParseFloat(strip_currency(cell))
                         IN  IF f.ok THEN FromHundredths(f.v) ELSE Bad

\* df['Acquisition_Cost'].str.replace(...).str.replace(...).astype(float):
\* the .str accessor raises AttributeError on a column that is not object,
\* astype raises ValueError on a cell that is no number.
cost_coercion_raises(rows) ==
    \/ ~text_dtype_is_object(rows, "Acquisition_Cost")
    \/ \E i \in DOMAIN rows : cost_value(rows[i].Acquisition_Cost).t = "bad"

\* the DataFrame after the in-place conversions of validate_data; read_csv
\* labels the rows 0, 1, ... (the index)
coerced(rows) ==
    [i \in DOMAIN rows |->
        [rows[i] EXCEPT !.Acquisition_Cost = cost_value(rows[i].Acquisition_Cost)]
        @@ [index |-> i - 1]]

validate_data(t) ==
    IF missing_cols(t.header) # {} THEN FALSE
    ELSE IF \/ to_datetime_raises(t.rows)
            \/ to_numeric_raises(t.rows)
            \/ cost_coercion_raises(t.rows)
         THEN FALSE
         ELSE TRUE

\* A DataFrame value: st is "df" for a frame, "none" for None, "unset"
\* for a variable not assigned yet, "raised" where the call raised; a frame
\* keeps the dtype read_csv gave the Duration column.
Frame(rows, duration_object) ==
    [st |-> "df", rows |-> rows, duration_object |-> duration_object]
NoneFrame == [st |-> "none", rows |-> <<>>, duration_object |-> FALSE]
UnsetFrame == [st |-> "unset", rows |-> <<>>, duration_object |-> FALSE]
RaisedFrame == [st |-> "raised", rows |-> <<>>, duration_object |-> FALSE]

load_data(t) ==
    IF ~t.exists THEN NoneFrame                  \* read_csv raised
    ELSE IF validate_data(t)
         THEN Frame(coerced(t.rows), text_dtype_is_object(t.rows, "Duration"))
    ELSE NoneFrame

----------------------------------------------------------------------------
(* MarketingDataProcessor *)

processor_number_columns == {"Impressions", "Clicks", "Engagement_Score"}

\* pd.to_numeric(col, errors='coerce').notna().all()
processor_column_ok(rows, c) == \A i \in DOMAIN rows : rows[i][c].t = "num"

processor_validate_data(t) ==
    IF missing_cols(t.header) # {} THEN FALSE
    ELSE \A c \in processor_number_columns : processor_column_ok(t.rows, c)

processor_load_data(t) ==
    IF ~t.exists THEN FALSE ELSE processor_validate_data(t)

----------------------------------------------------------------------------
(* Helpers on columns *)

\* the rows at the positions S, in their order
Pick(rows, S) ==
    LET at(k) == CHOOSE i \in S : Cardinality({j \in S : j < i}) = k - 1
    IN  [k \in 1..Cardinality(S) |-> rows[at(k)]]

\* Series.median(): the median of the cells that hold a number (missing cells
\* are skipped), NaN when there is none
median(rows, col) ==
    LET P == {i \in DOMAIN rows : IsNum(rows[i][col])}
        n == Cardinality(P)
        kth(k) == CHOOSE x \in {rows[i][col].v : i \in P} :
                     /\ Cardinality({i \in P : rows[i][col].v < x}) < k
                     /\ Cardinality({i \in P : rows[i][col].v <= x}) >= k
    IN  IF n = 0 THEN NaN
        ELSE IF n % 2 = 1 THEN Num(kth((n + 1) \div 2))
        ELSE Num((kth(n \div 2) + kth(n \div 2 + 1)) \div 2)

\* df.loc[mask, col] = value: the cell of every row in the mask is set
Replace(rows, col, mask, value) ==
    [i \in DOMAIN rows |->
        IF i \in mask THEN [rows[i] EXCEPT ![col] = value] ELSE rows[i]]

----------------------------------------------------------------------------
(* str.title(): the first letter of every run of letters in upper case, *)
(* the other letters in lower case                                         *)

Lower == <<"a", "b", "c", "d", "e", "f", "g", "h", "i", "j", "k", "l", "m",
           "n", "o", "p", "q", "r", "s", "t", "u", "v", "w", "x", "y", "z">>
Upper == <<"A", "B", "C", "D", "E", "F", "G", "H", "I", "J", "K", "L", "M",
           "N", "O", "P", "Q", "R", "S", "T", "U", "V", "W", "X", "Y", "Z">>

IsLetter(c) == \E k \in DOMAIN Lower : c = Lower[k] \/ c = Upper[k]
LetterNo(c) == CHOOSE k \in DOMAIN Lower : c = Lower[k] \/ c = Upper[k]

title(s) ==
    [i \in DOMAIN s |->
        IF ~IsLetter(s[i]) THEN s[i]
        ELSE IF i = 1 \/ ~IsLetter(s[i - 1]) THEN Upper[LetterNo(s[i])]
        ELSE Lower[LetterNo(s[i])]]

----------------------------------------------------------------------------
(* MarketingDataCleaner *)

numeric_columns == {"Clicks", "Impressions", "Engagement_Score", "Conversion_Rate", "ROI"}

categorical_columns ==
    {"Campaign_Type", "Channel_Used", "Target_Audience", "Location", "Language",
     "Customer_Segment"}

Unknown == <<"U", "n", "k", "n", "o", "w", "n">>

IsMissing(cell) == cell.t = "nan"

\* handle_missing_values: a numeric column with a missing cell has its
\* missing cells filled with the column's median, a categorical column with
\* 'Unknown'.  The columns are filled one after the other and do not read
\* each other.
handle_missing_values(rows) ==
    [i \in DOMAIN rows |->
        [c \in DOMAIN rows[i] |->
            IF c \in numeric_columns /\ IsMissing(rows[i][c]) THEN median(rows, c)
            ELSE IF c \in categorical_columns /\ rows[i][c] = <<>> THEN Unknown
            ELSE rows[i][c]]]

\* df.drop_duplicates(subset=['Campaign_ID'], keep=...)
drop_duplicates_keep_last(rows) ==
    Pick(rows, {i \in DOMAIN rows :
                  \A j \in DOMAIN rows : j > i => rows[j].Campaign_ID # rows[i].Campaign_ID})
\* df = df[df.duplicated(subset=['Campaign_ID'])]: the mask the wrong way round
drop_duplicates_inverted(rows) ==
    Pick(rows, {i \in DOMAIN rows :
                  \E j \in 1..(i - 1) : rows[j].Campaign_ID = rows[i].Campaign_ID})
remove_duplicates(rows) ==
    Pick(rows, {i \in DOMAIN rows :
                  \A j \in 1..(i - 1) : rows[j].Campaign_ID # rows[i].Campaign_ID})

title_columns == {"Campaign_Type", "Channel_Used", "Location", "Customer_Segment"}

\* df[col].str raises AttributeError on a column that is not of dtype
\* object: a column read_csv found to hold numbers only.  `rows` are the
\* rows the column was read with, after the missing cells were filled.
normalize_raises(rows) == \E c \in title_columns : ~text_dtype_is_object(rows, c)

normalize_categorical_values(rows) ==
    [i \in DOMAIN rows |->
        [c \in DOMAIN rows[i] |->
            IF c \in title_columns THEN title(rows[i][c]) ELSE rows[i][c]]]

Negative(cell) == IsNum(cell) /\ cell.v < 0
OutsideUnitInterval(cell) == IsNum(cell) /\ (cell.v < 0 \/ cell.v > Unit)

\* one column of the loop over ['Clicks', 'Impressions', 'Engagement_Score']:
\* df.loc[invalid_mask, col] = df[col].median()
repair_negative(rows, col) ==
    Replace(rows, col, {i \in DOMAIN rows : Negative(rows[i][col])}, median(rows, col))

\* validate_numeric_ranges.  After the Loader the Acquisition_Cost column is
\* float64, so the branch for an object column (lines 159-160) is not taken.
validate_numeric_ranges(rows) ==
    LET r1 == repair_negative(rows, "Clicks")
        r2 == repair_negative(r1, "Impressions")
        r3 == repair_negative(r2, "Engagement_Score")
    IN  Replace(r3, "Conversion_Rate",
                {i \in DOMAIN r3 : OutsideUnitInterval(r3[i].Conversion_Rate)},
                median(r3, "Conversion_Rate"))

\* str.extract(r'(\d+)'): the first run of digits of the text
first_digits(s) ==
    LET D == {i \in DOMAIN s : IsDigit(s[i])}
        a == Min(D)
        b == Max({j \in a..Len(s) : \A k \in a..j : IsDigit(s[k])})
    IN  IF D = {} THEN <<>> ELSE SubSeq(s, a, b)

\* Campaign_Duration of one row (days * Unit)
campaign_duration(cell, duration_object) ==
    IF cell = <<>> THEN NaN
    ELSE IF duration_object
         THEN LET d == first_digits(cell)
              IN  IF d = <<>> THEN NaN ELSE Num(DigitsValue(d) * Unit)
         ELSE FromHundredths(ParseFloat(cell).v)

NoCategory == "NaN"

\* pd.cut(x, bins=[b0, b1, b2, b3], labels): the intervals are open on the
\* left and closed on the right; a value in none of them has no category.
\* hi = 0 stands for float('inf').
cut(cell, b0, b1, b2, hi, labels) ==
    IF ~IsNum(cell) THEN NoCategory
    ELSE IF cell.v > b0 /\ cell.v <= b1 THEN labels[1]
    ELSE IF cell.v > b1 /\ cell.v <= b2 THEN labels[2]
    ELSE IF cell.v > b2 /\ (hi = 0 \/ cell.v <= hi) THEN labels[3]
    ELSE NoCategory

\* float division of two cells, kept as the fraction n / d
divide(x, y) ==
    IF ~IsNum(x) \/ ~IsNum(y) THEN [t |-> "nan", n |-> 0, d |-> 1]
    ELSE IF y.v # 0 THEN [t |-> "num", n |-> x.v, d |-> y.v]
    ELSE IF x.v > 0 THEN [t |-> "inf", n |-> 0, d |-> 1]
    ELSE IF x.v < 0 THEN [t |-> "-inf", n |-> 0, d |-> 1]
    ELSE [t |-> "nan", n |-> 0, d |-> 1]

derived_features(r, duration_object) ==
    LET dur == campaign_duration(r.Duration, duration_object)
    IN  [Campaign_Duration   |-> dur,
         Duration_Category   |-> cut(dur, 0, 7 * Unit, 30 * Unit, 0,
                                     <<"Short", "Medium", "Long">>),
         Engagement_Rate     |-> divide(r.Clicks, r.Impressions),
         Month               |-> IF r.Date.t = "date" THEN r.Date.m ELSE 0,
         Quarter             |-> IF r.Date.t = "date" THEN (r.Date.m - 1) \div 3 + 1 ELSE 0,
         Year                |-> IF r.Date.t = "date" THEN r.Date.y ELSE 0,
         Engagement_Category |-> cut(r.Engagement_Score, 0, 3 * Unit, 6 * Unit, 10 * Unit,
                                     <<"Low", "Medium", "High">>)]

\* create_derived_features: the new columns are added, or overwritten when
\* the frame already has them
create_derived_features(rows, duration_object) ==
    [i \in DOMAIN rows |-> derived_features(rows[i], duration_object) @@ rows[i]]

\* clean_data with initial_rows taken after the cleaning steps
clean_data_counting_late(frame) ==
    LET d1 == handle_missing_values(frame.rows)
        d2 == remove_duplicates(d1)
        d3 == normalize_categorical_values(d2)
        d4 == validate_numeric_ranges(d3)
        d5 == create_derived_features(d4, frame.duration_object)
    IN  [df      |-> Frame(d5, frame.duration_object),
         summary |-> [initial_rows |-> Len(d5),
                      final_rows   |-> Len(d5),
                      rows_removed |-> 0]]

\* clean_data: [df, summary]
clean_data(frame) ==
    LET initial_rows == Len(frame.rows)
        d1 == handle_missing_values(frame.rows)
        d2 == remove_duplicates(d1)
        d3 == normalize_categorical_values(d2)
        d4 == validate_numeric_ranges(d3)
        d5 == create_derived_features(d4, frame.duration_object)
    IN  IF normalize_raises(d1)
        THEN [df      |-> RaisedFrame,
              summary |-> [initial_rows |-> initial_rows,
                           final_rows   |-> 0,
                           rows_removed |-> 0]]
        ELSE [df      |-> Frame(d5, frame.duration_object),
              summary |-> [initial_rows |-> initial_rows,
                           final_rows   |-> Len(d5),
                           rows_removed |-> initial_rows - Len(d5)]]

----------------------------------------------------------------------------
(* CohortAnalyzer *)

\* Series.dt.to_period('M'): the month of a date
to_period(date) == [y |-> date.y, m |-> date.m]

\* (p - q).n for two monthly periods: the whole months from q to p
months_between_ignoring_year(p, q) == p.m - q.m
months_between(p, q) == (p.y * 12 + p.m) - (q.y * 12 + q.m)

\* the order of two dates
DateKey(date) == (date.y * 12 + date.m) * 31 + date.d

\* df.sort_values(['Date', 'Campaign_ID']): the rows by date, then by id
sort_values(rows) ==
    LET before(i, j) ==
            \/ DateKey(rows[i].Date) < DateKey(rows[j].Date)
            \/ /\ DateKey(rows[i].Date) = DateKey(rows[j].Date)
               /\ \/ rows[i].Campaign_ID < rows[j].Campaign_ID
                  \/ rows[i].Campaign_ID = rows[j].Campaign_ID /\ i < j
        at(k) == CHOOSE i \in DOMAIN rows :
                    Cardinality({j \in DOMAIN rows : before(j, i)}) = k - 1
    IN  [k \in DOMAIN rows |-> rows[at(k)]]

first_date_of_frame(rows, audience) ==
    rows[CHOOSE i \in DOMAIN rows :
            \A j \in DOMAIN rows : DateKey(rows[i].Date) <= DateKey(rows[j].Date)].Date

\* df.groupby('Target_Audience')['Date'].transform('min') for one row
first_date(rows, audience) ==
    LET G == {i \in DOMAIN rows : rows[i].Target_Audience = audience}
    IN  rows[CHOOSE i \in G : \A j \in G : DateKey(rows[i].Date) <= DateKey(rows[j].Date)].Date

\* create_cohorts.  The difference of a period and NaT is NaT, which has no
\* attribute n: the call raises when a date is missing, or when an audience
\* is missing (groupby drops the row, its minimum is NaT).
create_cohorts(rows) ==
    IF \E i \in DOMAIN rows : rows[i].Date.t # "date" \/ rows[i].Target_Audience = <<>>
    THEN RaisedFrame
    ELSE LET sorted == sort_values(rows)
         IN  Frame([i \in DOMAIN sorted |->
                      [Cohort_Month |-> to_period(sorted[i].Date),
                       Months_Since_First_Campaign |->
                           months_between(to_period(sorted[i].Date),
                                          to_period(first_date(sorted, sorted[i].Target_Audience)))]
                      @@ sorted[i]],
                   FALSE)

\* a cell of a pivot table: a fraction n / d, or absent (NaN)
Frac(n, d) == [t |-> "num", n |-> n, d |-> d]
Absent == [t |-> "nan", n |-> 0, d |-> 1]

Bucket(rows, c, o) ==
    {i \in DOMAIN rows : rows[i].Cohort_Month = c /\ rows[i].Months_Since_First_Campaign = o}

RECURSIVE SumOver(_, _, _)
SumOver(rows, col, S) ==
    IF S = {} THEN 0
    ELSE LET i == CHOOSE i \in S : TRUE
         IN  rows[i][col].v + SumOver(rows, col, S \ {i})

\* agg 'mean' over the cells that hold a number; absent when there is none
mean(rows, col, S) ==
    LET P == {i \in S : IsNum(rows[i][col])}
    IN  IF P = {} THEN Absent ELSE Frac(SumOver(rows, col, P), Cardinality(P))

\* the count with empty buckets filled (pivot_table(..., fill_value=0))
nunique_audience_fill_zero(rows, S) ==
    Frac(Cardinality({rows[i].Target_Audience : i \in S}), 1)

\* agg 'nunique' of Target_Audience in a bucket; absent for an empty bucket
nunique_audience(rows, S) ==
    IF S = {} THEN Absent ELSE Frac(Cardinality({rows[i].Target_Audience : i \in S}), 1)

\* retention_matrix.div(retention_matrix[0], axis=0): a cell divided by the
\* cell of its row in column 0; the quotient with an absent cell is absent
div_by_month0(cell, cell0) ==
    IF cell.t = "nan" \/ cell0.t = "nan" THEN Absent ELSE Frac(cell.n, cell0.n)

\* calculate_cohort_metrics: three pivot tables over
\* (Cohort_Month, Months_Since_First_Campaign).  retention_matrix[0] raises
\* KeyError when no row has offset 0, which is the case of the empty frame.
calculate_cohort_metrics(rows) ==
    LET index   == {rows[i].Cohort_Month : i \in DOMAIN rows}
        columns == {rows[i].Months_Since_First_Campaign : i \in DOMAIN rows}
        counts  == [c \in index, o \in columns |-> nunique_audience(rows, Bucket(rows, c, o))]
    IN  IF 0 \notin columns THEN [st |-> "raised"]
        ELSE [st         |-> "done",
              index      |-> index,
              columns    |-> columns,
              retention  |-> [c \in index, o \in columns |->
                                 div_by_month0(counts[c, o], counts[c, 0])],
              conversion |-> [c \in index, o \in columns |->
                                 mean(rows, "Conversion_Rate", Bucket(rows, c, o))],
              roi        |-> [c \in index, o \in columns |->
                                 mean(rows, "ROI", Bucket(rows, c, o))]]

----------------------------------------------------------------------------
(* SegmentAnalyzer and ChannelAnalyzer, as far as the pipeline reads them:  *)
(* whether the stage raises                                                 *)

n_clusters == 5

segment_features == {"Conversion_Rate", "ROI", "Engagement_Score", "Engagement_Rate"}

\* KMeans(n_clusters).fit_predict raises ValueError with fewer samples than
\* clusters and on a feature that is NaN or infinite
run_segment_analysis_raises(rows) ==
    \/ Len(rows) < n_clusters
    \/ \E i \in DOMAIN rows : \E c \in segment_features : rows[i][c].t # "num"

\* stats.f_oneway(*channel_groups) raises TypeError with fewer than two groups
run_channel_analysis_raises(rows) ==
    Cardinality({rows[i].Channel_Used : i \in DOMAIN rows}) < 2

\* run_cohort_analysis raises where create_cohorts or
\* calculate_cohort_metrics does
run_cohort_analysis_raises(rows) ==
    LET c == create_cohorts(rows)
    IN  c.st = "raised" \/ calculate_cohort_metrics(c.rows).st = "raised"

----------------------------------------------------------------------------
(* The file system *)

File(dir, name) == [dir |-> dir, name |-> name]

\* Path(directory).mkdir(parents=True, exist_ok=True) for each directory
setup_directories_dirs ==
    {"data", "data/processed", "data/output", "data/output/cohort_analysis",
     "data/output/segment_analysis", "data/output/channel_analysis",
     "docs", "docs/images"}

cleaned_file == File("data/processed", "cleaned_campaign_data.csv")
summary_file == File("data/processed", "data_summary.json")
dashboard_file == File("dashboard/data", "dashboard_data.json")

cohort_files ==
    {File("data/output/cohort_analysis", n) :
        n \in {"cohort_retention_heatmap.png", "cohort_conversion_heatmap.png",
               "cohort_roi_heatmap.png", "cohort_retention_matrix.csv",
               "cohort_conversion_matrix.csv", "cohort_roi_matrix.csv",
               "cohort_channel_preference.csv", "cohort_campaign_effectiveness.csv",
               "cohort_segment_analysis.csv"}}

segment_files ==
    {File("data/output/segment_analysis", n) :
        n \in {"segment_performance_scatter.png", "segment_channel_roi.png",
               "segment_trends.png", "rfm_metrics.csv", "performance_overall.csv",
               "performance_by_channel.csv", "performance_by_campaign_type.csv",
               "trends_monthly.csv", "trends_quarterly.csv", "cluster_statistics.csv"}}

channel_files ==
    {File("data/output/channel_analysis", n) :
        n \in {"channel_roi_comparison.png", "channel_metrics.png",
               "channel_cost_efficiency.png", "channel_roi_engagement.png",
               "channel_metrics.csv", "effectiveness_by_campaign_type.csv",
               "effectiveness_by_audience.csv", "effectiveness_by_segment.csv",
               "trends_monthly.csv", "trends_quarterly.csv",
               "statistical_analysis.csv", "channel_recommendations.csv"}}

\* open(path, "w") and to_csv raise when the directory does not exist
CanWrite(F, D) == \A f \in F : f.dir \in D

----------------------------------------------------------------------------
(* Input samples *)

T_Email == <<"E", "m", "a", "i", "l">>
T_Men == <<"M", "e", "n">>
T_Women == <<"W", "o", "m", "e", "n">>
T_YouTube == <<"Y", "o", "u", "T", "u", "b", "e">>
T_google_ads == <<"g", "o", "o", "g", "l", "e", " ", "a", "d", "s">>
T_Miami == <<"M", "i", "a", "m", "i">>
T_French == <<"F", "r", "e", "n", "c", "h">>
T_Foodies == <<"F", "o", "o", "d", "i", "e", "s">>
T_Acme == <<"A", "c", "m", "e">>
T_30_days == <<"3", "0", " ", "d", "a", "y", "s">>
T_currency == <<"$", "1", ",", "2", "5", "0", ".", "0", "0">>   \* "$1,250.00"
T_bare == <<"1", "2", "5", "0">>                                 \* "1250"
T_not_a_cost == <<"n", "/", "a">>

\* a well-formed row of the input file
NominalRaw ==
    [Campaign_ID      |-> 1,
     Company          |-> T_Acme,
     Campaign_Type    |-> T_Email,
     Target_Audience  |-> T_Men,
     Duration         |-> T_30_days,
     Channel_Used     |-> T_YouTube,
     Conversion_Rate  |-> Num(Unit \div 4),
     Acquisition_Cost |-> T_currency,
     ROI              |-> Num(6 * Unit),
     Location         |-> T_Miami,
     Language         |-> T_French,
     Clicks           |-> Num(4 * Unit),
     Impressions      |-> Num(8 * Unit),
     Engagement_Score |-> Num(8 * Unit),
     Customer_Segment |-> T_Foodies,
     Date             |-> DateOf(2021, 12, 5)]

\* the rows of the input files: the well-formed row, and the same row with
\* one cell missing, ill-typed or in the other allowed form
RawSamples ==
    {NominalRaw}
    \cup {[NominalRaw EXCEPT !.Date = v] : v \in {NaT, BadDate}}
    \cup {[NominalRaw EXCEPT !.Clicks = v] : v \in {NaN, Bad}}
    \cup {[NominalRaw EXCEPT !.Conversion_Rate = v] : v \in {NaN, Bad}}
    \cup {[NominalRaw EXCEPT !.Acquisition_Cost = v] : v \in {<<>>, T_bare, T_not_a_cost}}
    \cup {[NominalRaw EXCEPT !.Location = T_bare]}

\* the headers of the input files: all required columns, one more column,
\* any one required column absent, two absent, none present
Headers ==
    {required_columns, required_columns \cup {"Notes"}, {}}
    \cup {required_columns \ {c} : c \in required_columns}
    \cup {(required_columns \cup {"Notes"}) \ {c} : c \in {"Date", "Clicks"}}
    \cup {required_columns \ {"Acquisition_Cost", "ROI"}}

Table(header, rows) == [exists |-> TRUE, header |-> header, rows |-> rows]
NoTable == [exists |-> FALSE, header |-> {}, rows |-> <<>>]

LoaderInputs ==
    {NoTable} \cup {Table(h, r) : h \in Headers, r \in SeqsUpTo(RawSamples, MaxRawRows)}

----------------------------------------------------------------------------
(* Specification of the two loaders: each is applied once to the input *)

Idle ==
    /\ df = UnsetFrame
    /\ summaries = <<>>
    /\ cohort_df = UnsetFrame
    /\ metrics = [st |-> "unset"]
    /\ pc = "idle"
    /\ dirs = {}
    /\ files = {}
    /\ called = {}

InitLoad ==
    /\ csv \in LoaderInputs
    /\ raw_df = UnsetFrame
    /\ proc_ok = "unset"
    /\ Idle

LoaderLoadData ==
    /\ pc = "idle"
    /\ raw_df.st = "unset"
    /\ raw_df' = load_data(csv)
    /\ UNCHANGED <<csv, proc_ok, df, summaries, cohort_df, metrics, pc, dirs, files, called>>

ProcessorLoadData ==
    /\ pc = "idle"
    /\ proc_ok = "unset"
    /\ proc_ok' = IF processor_load_data(csv) THEN "true" ELSE "false"
    /\ UNCHANGED <<csv, raw_df, df, summaries, cohort_df, metrics, pc, dirs, files, called>>

NextLoad == LoaderLoadData \/ ProcessorLoadData

SpecLoad == InitLoad /\ [][NextLoad]_vars

----------------------------------------------------------------------------
(* Specification of run_analysis_pipeline *)

\* the i-th row of a well-formed input file: the ids are distinct, the rows
\* alternate between two channels and two audiences
NominalRawAt(i) ==
    [NominalRaw EXCEPT !.Campaign_ID = i,
                       !.Channel_Used = IF i % 2 = 1 THEN T_YouTube ELSE T_google_ads,
                       !.Target_Audience = IF i % 3 = 0 THEN T_Women ELSE T_Men]

\* input files of n rows: all rows well-formed, or all but one
PipelineRows(n) ==
    {[i \in 1..n |-> NominalRawAt(i)]}
    \cup {[i \in 1..n |-> IF i = k THEN [v EXCEPT !.Campaign_ID = i] ELSE NominalRawAt(i)] :
            k \in 1..n, v \in RawSamples}

PipelineInputs ==
    {NoTable}
    \cup {Table(h, r) : h \in Headers, r \in UNION {PipelineRows(n) : n \in 0..MaxPipelineRows}}

Init ==
    /\ csv \in PipelineInputs
    /\ raw_df = UnsetFrame
    /\ proc_ok = "unset"
    /\ df = UnsetFrame
    /\ summaries = <<>>
    /\ cohort_df = UnsetFrame
    /\ metrics = [st |-> "unset"]
    /\ pc = "start"
    /\ dirs \in {{}, {"dashboard", "dashboard/data"}}
    /\ files = {}
    /\ called = {}

\* setup_directories()
SetupDirectories ==
    /\ pc = "start"
    /\ dirs' = dirs \cup setup_directories_dirs
    /\ pc' = "load"
    /\ UNCHANGED <<csv, raw_df, proc_ok, df, summaries, cohort_df, metrics, files, called>>

\* if raw_df is None: raise ValueError("Failed to load raw data")
after_load_unchecked(loaded) == "clean"
after_load(loaded) == IF loaded.st = "none" THEN "error" ELSE "clean"

\* raw_df = data_loader.load_data(), and the check of its result
LoadData ==
    /\ pc = "load"
    /\ raw_df' = load_data(csv)
    /\ called' = called \cup {"load"}
    /\ pc' = after_load(raw_df')
    /\ UNCHANGED <<csv, proc_ok, df, summaries, cohort_df, metrics, dirs, files>>

\* cleaned_df, cleaning_summary = cleaner.clean_data(raw_df)
CleanData ==
    /\ pc = "clean"
    /\ LET r == clean_data(raw_df)
       IN  /\ df' = r.df
           /\ summaries' = IF r.df.st = "raised" THEN <<>> ELSE <<r.summary>>
           /\ pc' = IF r.df.st = "raised" THEN "error" ELSE "save"
    /\ called' = called \cup {"clean"}
    /\ UNCHANGED <<csv, raw_df, proc_ok, cohort_df, metrics, dirs, files>>

\* save_cleaned_data(cleaned_df, cleaned_data_path): mkdir of the parent
\* directory, then to_csv
SaveCleanedData ==
    /\ pc = "save"
    /\ dirs' = dirs \cup {"data", "data/processed"}
    /\ files' = files \cup {cleaned_file}
    /\ pc' = "summary"
    /\ UNCHANGED <<csv, raw_df, proc_ok, df, summaries, cohort_df, metrics, called>>

\* get_summary_stats and the write of data_summary.json
SaveSummary ==
    /\ pc = "summary"
    /\ IF CanWrite({summary_file}, dirs)
       THEN files' = files \cup {summary_file} /\ pc' = "cohort"
       ELSE files' = files /\ pc' = "error"
    /\ UNCHANGED <<csv, raw_df, proc_ok, df, summaries, cohort_df, metrics, dirs, called>>

\* one analysis stage: it reads the cleaned file, and writes its results
\* unless it raises
Stage(name, raises, out, next) ==
    /\ pc = name
    /\ called' = called \cup {name}
    /\ IF cleaned_file \in files /\ ~raises /\ CanWrite(out, dirs)
       THEN files' = files \cup out /\ pc' = next
       ELSE files' = files /\ pc' = "error"
    /\ UNCHANGED <<csv, raw_df, proc_ok, df, summaries, cohort_df, metrics, dirs>>

RunCohortAnalysis ==
    Stage("cohort", run_cohort_analysis_raises(df.rows), cohort_files, "segment")

RunSegmentAnalysis ==
    Stage("segment", run_segment_analysis_raises(df.rows), segment_files, "channel")

RunChannelAnalysis ==
    Stage("channel", run_channel_analysis_raises(df.rows), channel_files, "dashboard")

\* the write of dashboard/data/dashboard_data.json
SaveDashboardData ==
    /\ pc = "dashboard"
    /\ IF CanWrite({dashboard_file}, dirs)
       THEN files' = files \cup {dashboard_file} /\ pc' = "done"
       ELSE files' = files /\ pc' = "error"
    /\ UNCHANGED <<csv, raw_df, proc_ok, df, summaries, cohort_df, metrics, dirs, called>>

Next ==
    \/ SetupDirectories
    \/ LoadData
    \/ CleanData
    \/ SaveCleanedData
    \/ SaveSummary
    \/ RunCohortAnalysis
    \/ RunSegmentAnalysis
    \/ RunChannelAnalysis
    \/ SaveDashboardData

Spec == Init /\ [][Next]_vars

----------------------------------------------------------------------------
(* Specification of the Cleaner: clean_data is applied to a frame that      *)
(* passed the Loader, and again to the frame it returned                    *)

\* the well-formed row as the Loader returns it
NominalTyped == coerced(<<NominalRaw>>)[1]

SampleIds == {1, 2}

\* rows as the Loader can return them: the well-formed row, and the same row
\* with one cell missing, negative, out of range or in another case
TypedSamples ==
    {NominalTyped}
    \cup {[NominalTyped EXCEPT !.Clicks = v] : v \in {NaN, Num(0 - 2 * Unit), Num(0 - 6 * Unit)}}
    \cup {[NominalTyped EXCEPT !.Impressions = v] : v \in {NaN, Num(0)}}
    \cup {[NominalTyped EXCEPT !.Engagement_Score = v] : v \in {Num(0 - Unit)}}
    \cup {[NominalTyped EXCEPT !.Conversion_Rate = v] : v \in {NaN, Num(2 * Unit)}}
    \cup {[NominalTyped EXCEPT !.Acquisition_Cost = v] : v \in {Num(0 - 5 * Unit)}}
    \cup {[NominalTyped EXCEPT !.Channel_Used = v] : v \in {<<>>, T_google_ads}}

CleanerRows ==
    {[r EXCEPT !.Campaign_ID = id] : r \in TypedSamples, id \in SampleIds}

\* read_csv labels the rows 0, 1, ...
Indexed(rows) == [i \in DOMAIN rows |-> [rows[i] EXCEPT !.index = i - 1]]

CleanerInputs == {Frame(Indexed(r), TRUE) : r \in SeqsUpTo(CleanerRows, MaxRows)}

InitClean ==
    /\ csv = NoTable
    /\ raw_df \in CleanerInputs
    /\ proc_ok = "unset"
    /\ df = UnsetFrame
    /\ summaries = <<>>
    /\ cohort_df = UnsetFrame
    /\ metrics = [st |-> "unset"]
    /\ pc = "cleaner"
    /\ dirs = {}
    /\ files = {}
    /\ called = {}

\* cleaner.clean_data(df): the first call takes the loaded frame, a later
\* call the frame the call before returned
CleanerCleanData ==
    /\ pc = "cleaner"
    /\ Len(summaries) < MaxCleanRuns
    /\ df.st # "raised"
    /\ LET r == clean_data(IF df.st = "unset" THEN raw_df ELSE df)
       IN  /\ df' = r.df
           /\ summaries' = IF r.df.st = "raised" THEN summaries
                            ELSE Append(summaries, r.summary)
    /\ UNCHANGED <<csv, raw_df, proc_ok, cohort_df, metrics, pc, dirs, files, called>>

NextClean == CleanerCleanData

SpecClean == InitClean /\ [][NextClean]_vars

----------------------------------------------------------------------------
(* Specification of the CohortAnalyzer: create_cohorts, then                *)
(* calculate_cohort_metrics on its result                                   *)

CohortDates ==
    {DateOf(2021, 12, 5), DateOf(2021, 12, 20), DateOf(2022, 1, 10), DateOf(2022, 2, 1), NaT}

\* a cleaned row of the given audience and date
CohortRow(audience, date) ==
    create_derived_features(
        <<[NominalTyped EXCEPT !.Target_Audience = audience, !.Date = date]>>, TRUE)[1]

CohortRows == {CohortRow(a, d) : a \in {T_Men, T_Women}, d \in CohortDates}

\* two audiences that start in December and run on in January, when a third
\* one starts
ThreeAudiences ==
    <<CohortRow(T_Men, DateOf(2021, 12, 5)), CohortRow(T_Women, DateOf(2021, 12, 20)),
      CohortRow(T_Men, DateOf(2022, 1, 10)), CohortRow(T_Women, DateOf(2022, 1, 10)),
      CohortRow(T_Foodies, DateOf(2022, 1, 10))>>

\* cleaned frames: the ids are distinct
CohortInputs ==
    {Frame([i \in DOMAIN r |-> [r[i] EXCEPT !.Campaign_ID = i, !.index = i - 1]], TRUE) :
        r \in SeqsUpTo(CohortRows, MaxCohortRows) \cup {ThreeAudiences}}

InitCohort ==
    /\ csv = NoTable
    /\ raw_df = UnsetFrame
    /\ proc_ok = "unset"
    /\ df \in CohortInputs
    /\ summaries = <<>>
    /\ cohort_df = UnsetFrame
    /\ metrics = [st |-> "unset"]
    /\ pc = "cohort_analyzer"
    /\ dirs = {}
    /\ files = {}
    /\ called = {}

\* df_with_cohorts = analyzer.create_cohorts(df)
CreateCohorts ==
    /\ pc = "cohort_analyzer"
    /\ cohort_df.st = "unset"
    /\ cohort_df' = create_cohorts(df.rows)
    /\ UNCHANGED <<csv, raw_df, proc_ok, df, summaries, metrics, pc, dirs, files, called>>

\* cohort_metrics = analyzer.calculate_cohort_metrics(df_with_cohorts)
CalculateCohortMetrics ==
    /\ pc = "cohort_analyzer"
    /\ cohort_df.st = "df"
    /\ metrics.st = "unset"
    /\ metrics' = calculate_cohort_metrics(cohort_df.rows)
    /\ UNCHANGED <<csv, raw_df, proc_ok, df, summaries, cohort_df, pc, dirs, files, called>>

NextCohort == CreateCohorts \/ CalculateCohortMetrics

SpecCohort == InitCohort /\ [][NextCohort]_vars

----------------------------------------------------------------------------
(* Properties *)

AfterClean == df.st = "df" /\ summaries # <<>>

NonNegative(cell) == IsNum(cell) /\ cell.v >= 0

\* C1 (as claimed): every record clean_data returns has
\* 0 <= Conversion_Rate <= 1 and Acquisition_Cost, Clicks, Impressions and
\* Engagement_Score >= 0, whatever the input held.
C1_CleanedRangesAsClaimed ==
    (pc = "cleaner" /\ AfterClean) =>
        \A i \in DOMAIN df.rows :
            /\ IsNum(df.rows[i].Conversion_Rate)
            /\ df.rows[i].Conversion_Rate.v >= 0
            /\ df.rows[i].Conversion_Rate.v <= Unit
            /\ NonNegative(df.rows[i].Acquisition_Cost)
            /\ NonNegative(df.rows[i].Clicks)
            /\ NonNegative(df.rows[i].Impressions)
            /\ NonNegative(df.rows[i].Engagement_Score)

\* C2 (as claimed): every Cohort_Month row of the retention matrix holds
\* exactly 1.0 in the column Months_Since_First_Campaign = 0.
C2_RetentionMonth0AsClaimed ==
    metrics.st = "done" =>
        \A c \in metrics.index :
            /\ metrics.retention[c, 0].t = "num"
            /\ metrics.retention[c, 0].n = metrics.retention[c, 0].d

\* C3: clean_data applied to a frame clean_data returned removes no row: the
\* later summary has rows_removed = 0 and the final_rows of the run before.
C3_CleanIdempotentOnRows ==
    \A k \in 2..Len(summaries) :
        /\ summaries[k].rows_removed = 0
        /\ summaries[k].final_rows = summaries[k - 1].final_rows

\* C3 witness: a second run happened on a frame whose first run removed rows
C3_Witness ==
    /\ Len(summaries) >= 2
    /\ summaries[1].rows_removed > 0
    /\ summaries[2].final_rows >= 1

\* the rows of `out` are the first occurrences of the ids of `inp`, in order
FirstOccurrencesKept(inp, out) ==
    /\ \A i, j \in DOMAIN out : i # j => out[i].Campaign_ID # out[j].Campaign_ID
    /\ \A i \in DOMAIN inp :
          \E j \in DOMAIN out :
             /\ out[j].Campaign_ID = inp[i].Campaign_ID
             /\ out[j].index =
                  Min({inp[k].index : k \in {k \in DOMAIN inp :
                                                inp[k].Campaign_ID = inp[i].Campaign_ID}})
    /\ \A i, j \in DOMAIN out : i < j => out[i].index < out[j].index

\* C4: after remove_duplicates, and so after clean_data, no two records share
\* a Campaign_ID, the record kept for an id is the first of the input with
\* that id, and the kept records are in their input order.
C4_FirstOccurrenceKept ==
    pc = "cleaner" =>
        /\ FirstOccurrencesKept(raw_df.rows, remove_duplicates(raw_df.rows))
        /\ \A i \in DOMAIN raw_df.rows :
              \A j \in DOMAIN remove_duplicates(raw_df.rows) :
                 remove_duplicates(raw_df.rows)[j].index = raw_df.rows[i].index
                    => remove_duplicates(raw_df.rows)[j] = raw_df.rows[i]
        /\ AfterClean => FirstOccurrencesKept(raw_df.rows, df.rows)

\* C4 witness: clean_data has dropped the later of two records with one id,
\* which differ in another cell
C4_Witness ==
    /\ pc = "cleaner"
    /\ AfterClean
    /\ Len(raw_df.rows) >= 2
    /\ raw_df.rows[1].Campaign_ID = raw_df.rows[2].Campaign_ID
    /\ raw_df.rows[1].Clicks # raw_df.rows[2].Clicks
    /\ Len(df.rows) < Len(raw_df.rows)

\* C5: every record create_cohorts returns has Months_Since_First_Campaign
\* >= 0, also when its Target_Audience spans a year boundary.
C5_MonthsSinceFirstNonNegative ==
    cohort_df.st = "df" =>
        \A i \in DOMAIN cohort_df.rows :
            cohort_df.rows[i].Months_Since_First_Campaign \in Nat

\* C5 witness: create_cohorts returned a frame in which one audience has a
\* record in December and a later one in the next year
C5_Witness ==
    /\ cohort_df.st = "df"
    /\ \E i, j \in DOMAIN cohort_df.rows :
          /\ cohort_df.rows[i].Target_Audience = cohort_df.rows[j].Target_Audience
          /\ cohort_df.rows[i].Date.y < cohort_df.rows[j].Date.y
          /\ cohort_df.rows[i].Date.m > cohort_df.rows[j].Date.m
          /\ cohort_df.rows[j].Months_Since_First_Campaign > 0

LaterStages == {"clean", "cohort", "segment", "channel"}

\* C6: when load_data returns None in run_analysis_pipeline, the pipeline
\* ends in an error: the Cleaner is not called, no analysis starts, and no
\* cleaned data, summary, result or dashboard file is written.
C6_LoadFailureStopsPipeline ==
    raw_df.st = "none" =>
        /\ pc = "error"
        /\ called \cap LaterStages = {}
        /\ files = {}
        /\ df.st = "unset"

\* C6 witness: the pipeline has set up its directories and stopped on a
\* failed load of an existing file
C6_Witness ==
    /\ pc = "error"
    /\ csv.exists
    /\ raw_df.st = "none"
    /\ "load" \in called
    /\ "data/processed" \in dirs

\* C7: with a required column absent from the header, validate_data fails
\* and load_data returns no dataset, whatever the cells hold.
C7_MissingColumnFails ==
    (csv.exists /\ ~(required_columns \subseteq csv.header)) =>
        /\ ~validate_data(csv)
        /\ ~processor_validate_data(csv)
        /\ raw_df.st \in {"unset", "none"}
        /\ proc_ok \in {"unset", "false"}

\* C7 witness: both loaders have rejected a file that lacks exactly one
\* required column and whose cells are all well-formed
C7_Witness ==
    /\ pc = "idle"
    /\ csv.exists
    /\ Cardinality(required_columns \ csv.header) = 1
    /\ Len(csv.rows) >= 1
    /\ \A i \in DOMAIN csv.rows : csv.rows[i] = NominalRaw
    /\ raw_df.st = "none"
    /\ proc_ok = "false"

\* a cell of the row cannot be coerced: a Date that is no date, a numeric
\* column holding text, an Acquisition_Cost that is no amount
CellCoercionFails(r) ==
    \/ r.Date.t = "bad"
    \/ \E c \in {"Clicks", "Impressions", "Engagement_Score", "Conversion_Rate", "ROI"} :
          r[c].t = "bad"
    \/ /\ r.Acquisition_Cost # <<>>
       /\ ~ParseFloat(SelectSeq(r.Acquisition_Cost, LAMBDA ch : ch \notin {"$", ","})).ok

\* C8: the Loader is pass/fail: when a cell cannot be coerced, load_data
\* returns no dataset; a dataset it returns has every row, fully coerced.
C8_LoaderPassFail ==
    (pc = "idle" /\ raw_df.st # "unset") =>
        /\ (csv.exists /\ \E i \in DOMAIN csv.rows : CellCoercionFails(csv.rows[i]))
              => raw_df.st = "none"
        /\ raw_df.st = "df" =>
              /\ Len(raw_df.rows) = Len(csv.rows)
              /\ \A i \in DOMAIN raw_df.rows :
                    /\ raw_df.rows[i].Date.t \in {"date", "nan"}
                    /\ raw_df.rows[i].Acquisition_Cost.t \in {"num", "nan"}
                    /\ \A c \in numeric_cols : raw_df.rows[i][c].t \in {"num", "nan"}

\* C8 witness: load_data returned None for a file with all columns whose
\* first row is well-formed and whose second row holds one ill-typed cell
C8_Witness ==
    /\ pc = "idle"
    /\ raw_df.st = "none"
    /\ required_columns \subseteq csv.header
    /\ Len(csv.rows) = 2
    /\ csv.rows[1] = NominalRaw
    /\ CellCoercionFails(csv.rows[2])

\* every cell that is not missing is well-typed, the costs being currency text
NonNullCellsWellTyped(rows) ==
    \A i \in DOMAIN rows :
        /\ ~CellCoercionFails(rows[i])
        /\ rows[i].Acquisition_Cost # <<>> => rows[i].Acquisition_Cost[1] = "$"

\* C9 (as claimed): with all required columns present and every non-null
\* cell well-typed, the load succeeds whichever cells are null.
C9_NullsDoNotFailLoadAsClaimed ==
    (pc = "idle" /\ csv.exists /\ required_columns \subseteq csv.header
       /\ NonNullCellsWellTyped(csv.rows)) =>
        /\ raw_df.st \in {"unset", "df"}
        /\ proc_ok \in {"unset", "true"}

\* every Acquisition_Cost cell is currency text, or every one a bare number
AllCurrency(rows) == \A i \in DOMAIN rows : rows[i].Acquisition_Cost = T_currency
AllBare(rows) == \A i \in DOMAIN rows : rows[i].Acquisition_Cost = T_bare

\* C10 (as claimed): load_data succeeds and yields the numeric cost both for
\* a column of currency strings and for a column of bare numbers.
C10_BothCostFormsLoadAsClaimed ==
    (pc = "idle" /\ raw_df.st # "unset" /\ csv.exists
       /\ required_columns \subseteq csv.header
       /\ \A i \in DOMAIN csv.rows : ~CellCoercionFails(csv.rows[i])
       /\ (AllCurrency(csv.rows) \/ AllBare(csv.rows))) =>
        /\ raw_df.st = "df"
        /\ \A i \in DOMAIN raw_df.rows : raw_df.rows[i].Acquisition_Cost = Num(1250 * Unit)

----------------------------------------------------------------------------
(* MarketingDataProcessor.clean_data, and the parsing of currency text *)

processor_numeric_cols == {"Clicks", "Impressions", "Engagement_Score"}

processor_categorical_cols ==
    {"Channel_Used", "Target_Audience", "Location", "Language", "Customer_Segment"}

\* the Acquisition_Cost column after clean_data: parsed as currency text when
\* read_csv made it an object column, the floats read_csv produced otherwise
processor_cost(rows, cell) ==
    IF text_dtype_is_object(rows, "Acquisition_Cost") THEN cost_value(cell)
    ELSE IF cell = <<>> THEN NaN ELSE FromHundredths(ParseFloat(cell).v)

\* one row after the conversions, the filling of missing cells and the
\* derived features of clean_data
processor_row(rows, i) ==
    LET r == rows[i]
        filled == [c \in DOMAIN r |->
                     IF c = "Acquisition_Cost" THEN processor_cost(rows, r[c])
                     ELSE IF c \in processor_numeric_cols /\ IsMissing(r[c])
                          THEN median(rows, c)
                     ELSE IF c \in processor_categorical_cols /\ r[c] = <<>> THEN Unknown
                     ELSE r[c]]
        days == IF text_dtype_is_object(rows, "Duration")
                THEN [Duration_Days |-> campaign_duration(r.Duration, TRUE)]
                ELSE <<>>
    IN  [Month               |-> IF r.Date.t = "date" THEN r.Date.m ELSE 0,
         Quarter             |-> IF r.Date.t = "date" THEN (r.Date.m - 1) \div 3 + 1 ELSE 0,
         Year                |-> IF r.Date.t = "date" THEN r.Date.y ELSE 0,
         CTR                 |-> divide(filled.Clicks, filled.Impressions),
         Engagement_Category |-> cut(filled.Engagement_Score, 0, 3 * Unit, 6 * Unit,
                                     10 * Unit, <<"Low", "Medium", "High">>),
         index               |-> i - 1]
        @@ days @@ filled

\* MarketingDataProcessor.clean_data: the frame self.data holds afterwards, or
\* the exception of a conversion
processor_clean_data(rows) ==
    IF \/ to_datetime_raises(rows)
       \/ /\ text_dtype_is_object(rows, "Acquisition_Cost")
          /\ \E i \in DOMAIN rows : cost_value(rows[i].Acquisition_Cost).t = "bad"
    THEN RaisedFrame
    ELSE LET conv == [i \in DOMAIN rows |-> processor_row(rows, i)]
             kept == {i \in DOMAIN rows :
                        \A j \in 1..(i - 1) : rows[j].Campaign_ID # rows[i].Campaign_ID}
         IN  Frame(Pick(conv, kept), text_dtype_is_object(rows, "Duration"))

----------------------------------------------------------------------------
(* Specification of currency parsing: files whose Acquisition_Cost cells    *)
(* are currency strings, read by the Loader and by the Processor            *)

MaxCurrencyRows == 2

CurrencyLeads == {<<"1", "6">>, <<"2", "5", "0">>}
CurrencyGroups == {<<>>, <<",", "1", "7", "4">>, <<",", "0", "0", "5">>}
CurrencyDecimals == {<<>>, <<".", "0", "0">>, <<".", "5", "0">>}

\* '$', a leading digit group, at most one further group, an optional
\* two-digit decimal part
CurrencyTexts ==
    {<<"$">> \o l \o g \o d :
        l \in CurrencyLeads, g \in CurrencyGroups, d \in CurrencyDecimals}

CurrencyRows(n) ==
    {[i \in 1..n |-> [NominalRaw EXCEPT !.Campaign_ID = i, !.Acquisition_Cost = t[i]]] :
        t \in [1..n -> CurrencyTexts]}

CurrencyInputs ==
    {Table(required_columns, r) : r \in UNION {CurrencyRows(n) : n \in 1..MaxCurrencyRows}}

InitCurrency ==
    /\ csv \in CurrencyInputs
    /\ raw_df = UnsetFrame
    /\ proc_ok = "unset"
    /\ Idle

\* self.clean_data() in process(), reached when load_data returned True
ProcessorCleanData ==
    /\ pc = "idle"
    /\ proc_ok = "true"
    /\ df.st = "unset"
    /\ df' = processor_clean_data(csv.rows)
    /\ UNCHANGED <<csv, raw_df, proc_ok, summaries, cohort_df, metrics, pc, dirs, files, called>>

NextCurrency == LoaderLoadData \/ ProcessorLoadData \/ ProcessorCleanData

SpecCurrency == InitCurrency /\ [][NextCurrency]_vars

\* the number the digits of a currency text denote, as a cell: the digits
\* read as one number, the last two being the decimals when there is a '.'
DigitsOf(s) == SelectSeq(s, IsDigit)
DenotedValue(s) ==
    IF \E i \in DOMAIN s : s[i] = "."
    THEN Num(DigitsValue(DigitsOf(s)) * (Unit \div 100))
    ELSE Num(DigitsValue(DigitsOf(s)) * Unit)

T_16174 == <<"$", "1", "6", ",", "1", "7", "4", ".", "0", "0">>

\* C11: a currency string ('$', digit groups separated by ',', an optional
\* two-digit decimal part) parses to the number its digits denote, in the
\* Loader and in the Processor; "$16,174.00" parses to 16174.00.
C11_CurrencyParsesToItsDigits ==
    /\ raw_df.st # "unset" =>
          /\ raw_df.st = "df"
          /\ Len(raw_df.rows) = Len(csv.rows)
          /\ \A i \in DOMAIN csv.rows :
                /\ raw_df.rows[i].Acquisition_Cost = DenotedValue(csv.rows[i].Acquisition_Cost)
                /\ csv.rows[i].Acquisition_Cost = T_16174
                      => raw_df.rows[i].Acquisition_Cost = Num(16174 * Unit)
    /\ df.st # "unset" =>
          /\ df.st = "df"
          /\ Len(df.rows) = Len(csv.rows)
          /\ \A i \in DOMAIN csv.rows :
                /\ df.rows[i].Acquisition_Cost = DenotedValue(csv.rows[i].Acquisition_Cost)
                /\ csv.rows[i].Acquisition_Cost = T_16174
                      => df.rows[i].Acquisition_Cost = Num(16174 * Unit)

\* C11 witness: the Loader and the Processor have both parsed "$16,174.00",
\* next to a text without thousands separator
C11_Witness ==
    /\ raw_df.st = "df"
    /\ df.st = "df"
    /\ Len(csv.rows) = 2
    /\ csv.rows[1].Acquisition_Cost = T_16174
    /\ raw_df.rows[1].Acquisition_Cost = Num(16174 * Unit)
    /\ df.rows[1].Acquisition_Cost = Num(16174 * Unit)
    /\ \A j \in DOMAIN csv.rows[2].Acquisition_Cost : csv.rows[2].Acquisition_Cost[j] # ","

----------------------------------------------------------------------------
(* ChannelAnalyzer *)

\* A value rounded to three decimals is held in thousandths.
Rounded(v) == [t |-> "num", v |-> v]

\* round(x, 3) of x = n / (d * Unit), in thousandths.  A tie (a 5 in the
\* fourth decimal) does not occur for the sums, and for the means of up to
\* three cells, of two-decimal values.
round3(n, d) ==
    LET D == d * Unit
    IN  1000 * (n \div D) + (2000 * (n % D) + D) \div (2 * D)

\* the quotient a / b of two values in thousandths, rounded to three decimals
\* (long division, one decimal at a time); inf or NaN when b is 0
round3_div(a, b) ==
    IF b = 0 THEN [t |-> IF a = 0 THEN "nan" ELSE "inf", v |-> 0]
    ELSE LET r0 == a % b
             r1 == (10 * r0) % b
             r2 == (10 * r1) % b
             r3 == (10 * r2) % b
         IN  Rounded(1000 * (a \div b) + 100 * ((10 * r0) \div b)
                     + 10 * ((10 * r1) \div b) + (10 * r2) \div b
                     + (IF 2 * r3 >= b THEN 1 ELSE 0))

\* the rows of one group of df.groupby('Channel_Used')
channel_group(rows, ch) == {i \in DOMAIN rows : rows[i].Channel_Used = ch}

\* the group keys: groupby drops the rows whose key is missing
channels(rows) == {rows[i].Channel_Used : i \in DOMAIN rows} \ {<<>>}

\* agg 'sum' (missing cells are skipped) and agg 'mean', then .round(3)
sum_round3(rows, col, S) ==
    Rounded(round3(SumOver(rows, col, {i \in S : IsNum(rows[i][col])}), 1))
mean_round3_of_all(rows, col, S) ==
    LET m == mean(rows, col, DOMAIN rows)
    IN  IF m.t = "nan" THEN NaN ELSE Rounded(round3(m.n, m.d))
mean_round3(rows, col, S) ==
    LET m == mean(rows, col, S)
    IN  IF m.t = "nan" THEN NaN ELSE Rounded(round3(m.n, m.d))

\* calculate_channel_metrics: one row per channel.  The mean of
\* Engagement_Rate is held as the rates it averages, in row order.
calculate_channel_metrics(rows) ==
    [ch \in channels(rows) |->
        LET G      == channel_group(rows, ch)
            clicks == sum_round3(rows, "Clicks", G)
            impr   == sum_round3(rows, "Impressions", G)
            cost   == sum_round3(rows, "Acquisition_Cost", G)
        IN  [Campaign_ID        |-> Cardinality(G),
             Impressions        |-> impr,
             Clicks             |-> clicks,
             Acquisition_Cost   |-> cost,
             Conversion_Rate    |-> mean_round3(rows, "Conversion_Rate", G),
             ROI                |-> mean_round3(rows, "ROI", G),
             Engagement_Score   |-> mean_round3(rows, "Engagement_Score", G),
             Engagement_Rate    |-> [i \in DOMAIN Pick(rows, G) |->
                                        Pick(rows, G)[i].Engagement_Rate],
             Click_Through_Rate |-> round3_div(clicks.v, impr.v),
             Cost_per_Click     |-> round3_div(cost.v, clicks.v)]]

\* The p-value and the F statistic of scipy.stats.f_oneway are held in
\* hundred-thousandths.  The test itself is not computed: its outcome is one
\* of AnovaOutcomes, NaN when the groups leave no degree of freedom.
AnovaOutcome(f, p) == [f |-> f, p |-> p]
AnovaOutcomes ==
    {AnovaOutcome(Num(f), Num(p)) :
        f \in {1234567}, p \in {0, 4949, 4960, 5040, 5060, 100000}}
    \cup {AnovaOutcome(Num(412345), Num(5000)), AnovaOutcome(NaN, NaN)}

\* round(x, 3) of a value in hundred-thousandths that is no tie
round3_of_float(x) == IF IsNum(x) THEN Rounded((x.v + 50) \div 100) ELSE NaN

anova_metrics == {"Conversion_Rate", "ROI", "Engagement_Score"}

\* 'significant': p_value < 0.05, on the p-value f_oneway returned
significant_of_rounded(p) == IsNum(p) /\ round3_of_float(p).v < 50
significant(p) == IsNum(p) /\ p.v < 5000

\* one entry of statistical_results; f_oneway keeps the outcome of the test
\* the entry was made from
anova_entry(o) ==
    [f_statistic |-> round3_of_float(o.f),
     p_value     |-> round3_of_float(o.p),
     significant |-> significant(o.p),
     f_oneway    |-> o]

\* perform_statistical_analysis, given the outcome of the test for each
\* metric; f_oneway raises TypeError with fewer than two groups.  The
\* correlation matrix is not held.
perform_statistical_analysis(rows, outcome) ==
    IF run_channel_analysis_raises(rows) THEN [st |-> "raised"]
    ELSE [st |-> "done", anova |-> [m \in anova_metrics |-> anova_entry(outcome[m])]]

----------------------------------------------------------------------------
(* Specification of the ChannelAnalyzer on the sample campaigns: the      *)
(* dataset is what the Loader and the Cleaner make of a file holding some   *)
(* of the five sample campaigns                                             *)

T_Google_Ads == <<"G", "o", "o", "g", "l", "e", " ", "A", "d", "s">>
T_Youtube == <<"Y", "o", "u", "t", "u", "b", "e">>
T_60_days == <<"6", "0", " ", "d", "a", "y", "s">>
T_15_days == <<"1", "5", " ", "d", "a", "y", "s">>

\* the columns of the sample the analyzers aggregate; the other text columns
\* keep the values of the well-formed row
SampleCampaigns ==
    LET row(id, dur, ch, conv, cost, roi, clicks, impr, score) ==
            [NominalRaw EXCEPT !.Campaign_ID = id, !.Duration = dur, !.Channel_Used = ch,
                               !.Conversion_Rate = Num(conv * (Unit \div 100)),
                               !.Acquisition_Cost = cost,
                               !.ROI = Num(roi * (Unit \div 100)),
                               !.Clicks = Num(clicks * Unit),
                               !.Impressions = Num(impr * Unit),
                               !.Engagement_Score = Num(score * Unit),
                               !.Date = DateOf(2021, 1, id)]
    IN  <<row(1, T_30_days, T_Google_Ads, 4, T_16174, 629, 506, 1922, 6),
          row(2, T_60_days, T_Google_Ads, 12,
              <<"$", "1", "1", ",", "5", "6", "6", ".", "0", "0">>, 561, 116, 7523, 7),
          row(3, T_30_days, T_YouTube, 7,
              <<"$", "1", "0", ",", "2", "0", "0", ".", "0", "0">>, 718, 584, 7698, 1),
          row(4, T_60_days, T_YouTube, 11,
              <<"$", "1", "2", ",", "7", "2", "4", ".", "0", "0">>, 555, 217, 1820, 7),
          row(5, T_15_days, T_YouTube, 5,
              <<"$", "1", "6", ",", "4", "5", "2", ".", "0", "0">>, 650, 379, 4201, 3)>>

\* the cleaned dataset of the file that holds the sample campaigns S
CleanedSample(S) ==
    clean_data(load_data(Table(required_columns, Pick(SampleCampaigns, S)))).df

ChannelInputs == {CleanedSample(S) : S \in SUBSET DOMAIN SampleCampaigns}

UnsetResult == [st |-> "unset"]

InitChannel ==
    /\ df \in ChannelInputs
    /\ metrics = [st |-> "channel", channel_metrics |-> UnsetResult,
                  statistical_results |-> UnsetResult]
    /\ pc = "channel_analyzer"
    /\ csv = NoTable
    /\ raw_df = UnsetFrame
    /\ proc_ok = "unset"
    /\ summaries = <<>>
    /\ cohort_df = UnsetFrame
    /\ dirs = {}
    /\ files = {}
    /\ called = {}

\* channel_metrics = analyzer.calculate_channel_metrics(df)
CalculateChannelMetrics ==
    /\ pc = "channel_analyzer"
    /\ metrics.channel_metrics = UnsetResult
    /\ metrics' = [metrics EXCEPT !.channel_metrics =
                      [st |-> "done", table |-> calculate_channel_metrics(df.rows)]]
    /\ UNCHANGED <<csv, raw_df, proc_ok, df, summaries, cohort_df, pc, dirs, files, called>>

\* statistical_results = analyzer.perform_statistical_analysis(df)
PerformStatisticalAnalysis ==
    /\ pc = "channel_analyzer"
    /\ metrics.statistical_results = UnsetResult
    /\ \E outcome \in [anova_metrics -> AnovaOutcomes] :
          metrics' = [metrics EXCEPT !.statistical_results =
                         perform_statistical_analysis(df.rows, outcome)]
    /\ UNCHANGED <<csv, raw_df, proc_ok, df, summaries, cohort_df, pc, dirs, files, called>>

NextChannel == CalculateChannelMetrics \/ PerformStatisticalAnalysis

SpecChannel == InitChannel /\ [][NextChannel]_vars

AnovaEntries ==
    IF metrics.st = "channel" /\ metrics.statistical_results.st = "done"
    THEN {metrics.statistical_results.anova[m] : m \in anova_metrics}
    ELSE {}

\* C12 (as claimed): in every ANOVA entry 'significant' is true if and only
\* if the 'p_value' reported in the entry is below 0.05.
C12_SignificantIffReportedPBelow ==
    \A e \in AnovaEntries : e.significant <=> (IsNum(e.p_value) /\ e.p_value.v < 50)

\* C12 (amended): in every ANOVA entry 'significant' is true if and only if
\* the p-value f_oneway returned, before it is rounded to three decimals for
\* the entry, is below 0.05; so a reported 'p_value' below 0.05 comes with
\* significant = true, one above 0.05 with significant = false, and a
\* reported 0.05 with either.
C12_SignificantIffPBelow ==
    \A e \in AnovaEntries :
        /\ e.significant <=> (IsNum(e.f_oneway.p) /\ e.f_oneway.p.v < 5000)
        /\ (IsNum(e.p_value) /\ e.p_value.v < 50) => e.significant
        /\ (IsNum(e.p_value) /\ e.p_value.v > 50) => ~e.significant
        /\ ~IsNum(e.p_value) => ~e.significant

\* C12 witness: an entry reports p_value 0.05 (from 0.0496) as significant
\* next to an entry that reports 0.05 (from 0.0504) as not significant
C12_Witness ==
    /\ metrics.st = "channel"
    /\ metrics.statistical_results.st = "done"
    /\ metrics.statistical_results.anova["ROI"].f_oneway.p = Num(4960)
    /\ metrics.statistical_results.anova["ROI"].p_value = Rounded(50)
    /\ metrics.statistical_results.anova["ROI"].significant
    /\ metrics.statistical_results.anova["Conversion_Rate"].p_value = Rounded(50)
    /\ ~metrics.statistical_results.anova["Conversion_Rate"].significant

ChannelTable == metrics.channel_metrics.table

\* the ROI mean the table reports for the channel is the arithmetic mean of
\* ROI over exactly the records of that channel, to three decimals
RoiMeanOfChannel(ch) ==
    LET G == {i \in DOMAIN df.rows : df.rows[i].Channel_Used = ch}
        n == SumOver(df.rows, "ROI", G)
        D == Cardinality(G) * Unit
        e == ChannelTable[ch].ROI.v * D - 1000 * n
    IN  /\ G # {}
        /\ ChannelTable[ch].Campaign_ID = Cardinality(G)
        /\ 2 * e <= D /\ 2 * e > 0 - D

ChannelMetricsDone ==
    /\ metrics.st = "channel"
    /\ metrics.channel_metrics.st = "done"

\* C13 (as claimed): calculate_channel_metrics reports for every channel the
\* mean of ROI over exactly its records; for the five sample campaigns the
\* table has exactly the rows Google Ads (5.95) and YouTube (6.41).
C13_SampleChannelMeansAsClaimed ==
    ChannelMetricsDone =>
        /\ \A ch \in DOMAIN ChannelTable : RoiMeanOfChannel(ch)
        /\ df = CleanedSample(1..5) =>
              /\ DOMAIN ChannelTable = {T_Google_Ads, T_YouTube}
              /\ ChannelTable[T_Google_Ads].ROI = Rounded(5950)
              /\ ChannelTable[T_YouTube].ROI = Rounded(6410)

\* C13 (amended): calculate_channel_metrics reports for every channel of the
\* dataset the mean of ROI over exactly its records; for the five sample
\* campaigns, cleaned, the table has exactly two rows, Google Ads with ROI
\* mean 5.95 and Youtube, as the Cleaner's title-casing spells YouTube, with
\* ROI mean 6.41.
C13_SampleChannelMeans ==
    ChannelMetricsDone =>
        /\ DOMAIN ChannelTable = {df.rows[i].Channel_Used : i \in DOMAIN df.rows}
        /\ \A ch \in DOMAIN ChannelTable : RoiMeanOfChannel(ch)
        /\ df = CleanedSample(1..5) =>
              /\ DOMAIN ChannelTable = {T_Google_Ads, T_Youtube}
              /\ ChannelTable[T_Google_Ads].ROI = Rounded(5950)
              /\ ChannelTable[T_Youtube].ROI = Rounded(6410)

\* C13 witness: the table of the five cleaned sample campaigns is computed
C13_Witness ==
    /\ ChannelMetricsDone
    /\ Len(df.rows) = 5
    /\ df = CleanedSample(1..5)
    /\ Cardinality(DOMAIN ChannelTable) = 2

----------------------------------------------------------------------------
(* SegmentAnalyzer.perform_cluster_analysis *)

RECURSIVE Gcd(_, _)
Gcd(a, b) == IF b = 0 THEN a ELSE Gcd(b, a % b)

\* the rate n / d in lowest terms with a positive denominator
lowest_terms(f) ==
    LET an == IF f.n < 0 THEN 0 - f.n ELSE f.n
        ad == IF f.d < 0 THEN 0 - f.d ELSE f.d
        g  == Gcd(an, ad)
        n  == IF f.d < 0 THEN 0 - f.n ELSE f.n
    IN  IF g = 0 THEN <<0, 0>> ELSE <<n \div g, ad \div g>>

\* two records have the same feature vector (self.segment_features)
same_features(r, s) ==
    /\ r.Conversion_Rate = s.Conversion_Rate
    /\ r.ROI = s.ROI
    /\ r.Engagement_Score = s.Engagement_Score
    /\ lowest_terms(r.Engagement_Rate) = lowest_terms(s.Engagement_Rate)

\* StandardScaler.fit_transform and KMeans.fit_predict raise ValueError on an
\* empty frame, on a feature that is NaN or infinite, and with fewer samples
\* than clusters
kmeans_raises(rows, k) ==
    \/ Len(rows) < k
    \/ \E i \in DOMAIN rows : \E c \in segment_features : rows[i][c].t # "num"

\* random_state=42: the seed of the generator KMeans draws its initial
\* centres from.  Without random_state the generator is numpy's global one,
\* whose state each run advances.
kmeans_random_state_unset(run) == run
kmeans_random_state(run) == 42

\* KMeans(n_clusters=k, random_state=seed).fit_predict(features_scaled).
\* The centres are not computed.  The labelling is a function of the feature
\* vectors, k and the seed that gives equal vectors the same label and, with
\* at most k distinct vectors, each distinct vector a label of its own: the
\* distinct vectors are numbered in row order, and the seed decides which
\* label the first one gets.
fit_predict(rows, k, seed) ==
    LET first(i) == Min({j \in DOMAIN rows : same_features(rows[j], rows[i])})
        rank(i)  == Cardinality({j \in 1..(first(i) - 1) : first(j) = j})
    IN  [i \in DOMAIN rows |-> (rank(i) + seed) % k]

\* for i in range(n_clusters)
cluster_ids_from_one(k) == 1..k
cluster_ids(k) == 0..(k - 1)

\* cluster_stats[f'Cluster_{i}'] of the rows labelled i; the mean of
\* Engagement_Rate is held as the rates it averages
cluster_stats_entry(rows, labels, c) ==
    LET G == {i \in DOMAIN rows : labels[i] = c}
    IN  [size                 |-> Cardinality(G),
         avg_conversion_rate  |-> mean(rows, "Conversion_Rate", G),
         avg_roi              |-> mean(rows, "ROI", G),
         avg_acquisition_cost |-> mean(rows, "Acquisition_Cost", G),
         avg_engagement_score |-> mean(rows, "Engagement_Score", G),
         avg_engagement_rate  |-> [i \in DOMAIN Pick(rows, G) |->
                                      Pick(rows, G)[i].Engagement_Rate]]

\* perform_cluster_analysis(df, k) in the run-th call of the process: the
\* labels, the frame with its Cluster column set, and the cluster statistics
perform_cluster_analysis(rows, k, run) ==
    IF kmeans_raises(rows, k)
    THEN [st |-> "raised", k |-> k, labels |-> <<>>, rows |-> rows, cluster_stats |-> <<>>]
    ELSE LET labels == fit_predict(rows, k, kmeans_random_state(run))
         IN  [st            |-> "done",
              k             |-> k,
              labels        |-> labels,
              rows          |-> [i \in DOMAIN rows |-> [Cluster |-> labels[i]] @@ rows[i]],
              cluster_stats |-> [c \in cluster_ids(k) |->
                                    cluster_stats_entry(rows, labels, c)]]

----------------------------------------------------------------------------
(* Specification of the SegmentAnalyzer: perform_cluster_analysis is called *)
(* on a cleaned dataset, repeatedly and with any k                          *)

MaxSegmentRows == 3
MaxClusters == 3
MaxClusterRuns == 2

SegmentSamples ==
    {NominalTyped,
     [NominalTyped EXCEPT !.ROI = Num(2 * Unit)],
     [NominalTyped EXCEPT !.Engagement_Score = Num(3 * Unit), !.Clicks = Num(2 * Unit)],
     [NominalTyped EXCEPT !.Impressions = Num(0)],
     [NominalTyped EXCEPT !.Conversion_Rate = NaN]}

\* the cleaned frames of files with distinct ids
SegmentInputs ==
    {clean_data(Frame(Indexed([i \in DOMAIN r |-> [r[i] EXCEPT !.Campaign_ID = i]]), TRUE)).df :
        r \in SeqsUpTo(SegmentSamples, MaxSegmentRows)}

InitSegment ==
    /\ df \in SegmentInputs
    /\ metrics = [st |-> "segment", runs |-> <<>>]
    /\ pc = "segment_analyzer"
    /\ csv = NoTable
    /\ raw_df = UnsetFrame
    /\ proc_ok = "unset"
    /\ summaries = <<>>
    /\ cohort_df = UnsetFrame
    /\ dirs = {}
    /\ files = {}
    /\ called = {}

\* df_clustered, cluster_stats = analyzer.perform_cluster_analysis(df, k):
\* df['Cluster'] = ... sets the column in the frame of the caller
PerformClusterAnalysis ==
    /\ pc = "segment_analyzer"
    /\ Len(metrics.runs) < MaxClusterRuns
    /\ \E k \in 1..MaxClusters :
          LET r == perform_cluster_analysis(df.rows, k, Len(metrics.runs))
          IN  /\ df' = [df EXCEPT !.rows = r.rows]
              /\ metrics' = [metrics EXCEPT !.runs =
                                Append(@, [st |-> r.st, k |-> r.k, labels |-> r.labels,
                                           cluster_stats |-> r.cluster_stats])]
    /\ UNCHANGED <<csv, raw_df, proc_ok, summaries, cohort_df, pc, dirs, files, called>>

NextSegment == PerformClusterAnalysis

SpecSegment == InitSegment /\ [][NextSegment]_vars

ClusterRuns == IF metrics.st = "segment" THEN metrics.runs ELSE <<>>

RECURSIVE SumOfSizes(_, _)
SumOfSizes(stats, S) ==
    IF S = {} THEN 0
    ELSE LET c == CHOOSE c \in S : TRUE
         IN  stats[c].size + SumOfSizes(stats, S \ {c})

\* C15: a call of perform_cluster_analysis with k that returns gives every
\* record exactly one Cluster id in 0..k-1; the statistics have exactly the
\* k entries Cluster_0 .. Cluster_{k-1}, whose sizes sum to the number of
\* records.
C15_ClustersPartitionRecords ==
    \A a \in DOMAIN ClusterRuns :
        ClusterRuns[a].st = "done" =>
            LET run == ClusterRuns[a]
            IN  /\ DOMAIN run.labels = DOMAIN df.rows
                /\ \A i \in DOMAIN df.rows : run.labels[i] \in 0..(run.k - 1)
                /\ a = Len(ClusterRuns) =>
                      \A i \in DOMAIN df.rows : df.rows[i].Cluster = run.labels[i]
                /\ DOMAIN run.cluster_stats = 0..(run.k - 1)
                /\ SumOfSizes(run.cluster_stats, DOMAIN run.cluster_stats) = Len(df.rows)
                /\ \A c \in DOMAIN run.cluster_stats :
                      run.cluster_stats[c].size =
                          Cardinality({i \in DOMAIN df.rows : run.labels[i] = c})

\* C15 witness: three records in three clusters of sizes 2, 1 and 0
C15_Witness ==
    /\ Len(ClusterRuns) >= 1
    /\ ClusterRuns[1].st = "done"
    /\ ClusterRuns[1].k = 3
    /\ Len(df.rows) = 3
    /\ {ClusterRuns[1].cluster_stats[c].size : c \in 0..2} = {0, 1, 2}

----------------------------------------------------------------------------
(* Specification of the three analyzers, each called on a dataset of its *)
(* caller: df is the caller's dataset (for calculate_cohort_metrics the  *)
(* caller's dataset is cohort_df)                                        *)

InitAnalyzers == InitCohort \/ InitSegment \/ InitChannel

NextAnalyzers == NextCohort \/ NextSegment \/ NextChannel

SpecAnalyzers == InitAnalyzers /\ [][NextAnalyzers]_vars

\* C18 (as claimed): no operation of CohortAnalyzer, SegmentAnalyzer or
\* ChannelAnalyzer changes the dataset it is given: after the call the
\* caller's dataset has the same records, fields and values as before.
C18_EnginesReadOnlyAsClaimed ==
    [][/\ df' = df
       /\ cohort_df.st # "unset" => cohort_df' = cohort_df]_vars

----------------------------------------------------------------------------
(* Specification of the Cleaner on datasets whose Duration and            *)
(* Engagement_Score take values on and around the bin edges of the cuts   *)
(* in create_derived_features                                             *)

MaxFeatureRows == 2

FeatureDays == {0, 7, 8, 30, 31}

\* the decimal text of a number of days below 100
DaysNumber(d) ==
    IF d < 10 THEN <<Digits[d + 1]>>
    ELSE <<Digits[(d \div 10) + 1], Digits[(d % 10) + 1]>>

\* Duration as free text ("30 days")
DaysText(d) == DaysNumber(d) \o <<" ", "d", "a", "y", "s">>

\* scores the range repair of validate_numeric_ranges lets through: it
\* replaces negative scores only.  Unit \div 2 * 7 is the score 3.5.
FeatureScores ==
    {Num(s * Unit) : s \in {0, 3, 4, 6, 8, 10, 11}} \cup {Num((Unit \div 2) * 7)}

FeatureSamples ==
    {[NominalTyped EXCEPT !.Duration = DaysText(d)] : d \in FeatureDays}
    \cup {[NominalTyped EXCEPT !.Duration = <<>>]}
    \cup {[NominalTyped EXCEPT !.Engagement_Score = s] : s \in FeatureScores}

\* a Duration column of numbers only is not of dtype object
NumericDurationSamples ==
    {[NominalTyped EXCEPT !.Duration = DaysNumber(d)] : d \in FeatureDays}

WithIds(rows) == Indexed([i \in DOMAIN rows |-> [rows[i] EXCEPT !.Campaign_ID = i]])

FeatureInputs ==
    {Frame(WithIds(r), TRUE) : r \in SeqsUpTo(FeatureSamples, MaxFeatureRows)}
    \cup {Frame(WithIds(r), FALSE) : r \in SeqsUpTo(NumericDurationSamples, MaxFeatureRows)}

InitFeatures ==
    /\ raw_df \in FeatureInputs
    /\ df = UnsetFrame
    /\ summaries = <<>>
    /\ pc = "cleaner"
    /\ csv = NoTable
    /\ proc_ok = "unset"
    /\ cohort_df = UnsetFrame
    /\ metrics = [st |-> "unset"]
    /\ dirs = {}
    /\ files = {}
    /\ called = {}

SpecFeatures == InitFeatures /\ [][NextClean]_vars

\* the Duration_Category the claim gives a duration of d days
ClaimedDurationCategory(d) ==
    IF d <= 7 THEN "Short" ELSE IF d <= 30 THEN "Medium" ELSE "Long"

\* C16 (as claimed): create_derived_features gives every record a duration
\* in days equal to the integer in its Duration text, or to the Duration
\* number itself, and for every non-negative duration d the category Short
\* when d <= 7, Medium when 8 <= d <= 30, Long when d > 30; no record with
\* a non-negative duration is left without a category.
C16_DurationCategoryAsClaimed ==
    (pc = "cleaner" /\ df.st = "df") =>
        \A i \in DOMAIN df.rows : \A d \in FeatureDays :
            df.rows[i].Duration \in {DaysText(d), DaysNumber(d)} =>
                /\ df.rows[i].Campaign_Duration = Num(d * Unit)
                /\ df.rows[i].Duration_Category = ClaimedDurationCategory(d)

\* the Engagement_Category the claim gives a score (in Units)
ClaimedEngagementCategory(s) ==
    IF s.v <= 3 * Unit THEN {"Low"}
    ELSE IF s.v >= 4 * Unit /\ s.v <= 6 * Unit THEN {"Medium"}
    ELSE IF s.v >= 7 * Unit /\ s.v <= 10 * Unit THEN {"High"}
    ELSE {"Low", "Medium", "High"}

\* C17 (as claimed): every cleaned record has an Engagement_Category, which
\* is Low when its Engagement_Score s <= 3, Medium when 4 <= s <= 6 and
\* High when 7 <= s <= 10, for every score the range repair lets through.
C17_EngagementCategoryAsClaimed ==
    (pc = "cleaner" /\ df.st = "df") =>
        \A i \in DOMAIN df.rows :
            IsNum(df.rows[i].Engagement_Score) =>
                df.rows[i].Engagement_Category
                    \in ClaimedEngagementCategory(df.rows[i].Engagement_Score)

----------------------------------------------------------------------------
(* Specification of the three engines run in any order and interleaved:   *)
(* each run_*_analysis reads the cleaned file into a frame of its own,    *)
(* computes its tables from that frame and writes them under its own      *)
(* output path.  An entry of `files` records who wrote the file.          *)

Engines == {"cohort", "segment", "channel"}

\* output_path= of the call of run_<engine>_analysis
engine_output_path_shared(e) == "data/output"
engine_output_path(e) ==
    CASE e = "cohort"  -> "data/output/cohort_analysis"
      [] e = "segment" -> "data/output/segment_analysis"
      [] e = "channel" -> "data/output/channel_analysis"

\* the names of the files run_<engine>_analysis writes under output_path
engine_file_names(e) ==
    CASE e = "cohort"  -> {f.name : f \in cohort_files}
      [] e = "segment" -> {f.name : f \in segment_files}
      [] e = "channel" -> {f.name : f \in channel_files}

WrittenBy(dir, name, by) == [dir |-> dir, name |-> name, by |-> by]

engine_writes(e) ==
    {WrittenBy(engine_output_path(e), n, e) : n \in engine_file_names(e)}

\* a write replaces the file of the same path
write_files(F, W) ==
    {f \in F : ~\E w \in W : w.dir = f.dir /\ w.name = f.name} \cup W

\* the result tables of an engine on the frame it has read
engine_result(e, rows) ==
    CASE e = "cohort" ->
            LET c == create_cohorts(rows)
            IN  IF c.st = "raised" THEN [st |-> "raised"]
                ELSE calculate_cohort_metrics(c.rows)
      [] e = "segment" ->
            LET r == perform_cluster_analysis(rows, n_clusters, 0)
            IN  [st |-> r.st, cluster_stats |-> r.cluster_stats]
      [] e = "channel" ->
            IF run_channel_analysis_raises(rows) THEN [st |-> "raised"]
            ELSE [st |-> "done", table |-> calculate_channel_metrics(rows)]

EngineUnset == [st |-> "unset", read_by |-> "", rows |-> <<>>, result |-> UnsetResult]

InitEngines ==
    /\ df \in ChannelInputs
    /\ files = {WrittenBy(cleaned_file.dir, cleaned_file.name, "cleaner")}
    /\ dirs = setup_directories_dirs
    /\ metrics = [st |-> "engines", cohort |-> EngineUnset,
                  segment |-> EngineUnset, channel |-> EngineUnset]
    /\ pc = "engines"
    /\ csv = NoTable
    /\ raw_df = UnsetFrame
    /\ proc_ok = "unset"
    /\ summaries = <<>>
    /\ cohort_df = UnsetFrame
    /\ called = {}

\* df = pd.read_csv(input_data_path, parse_dates=['Date'])
ReadCleanedData ==
    /\ pc = "engines"
    /\ \E e \in Engines :
          /\ metrics[e].st = "unset"
          /\ \E f \in files :
                /\ f.dir = cleaned_file.dir /\ f.name = cleaned_file.name
                /\ metrics' = [metrics EXCEPT ![e] =
                                  [st |-> "read", read_by |-> f.by,
                                   rows |-> df.rows, result |-> UnsetResult]]
    /\ UNCHANGED <<csv, raw_df, proc_ok, df, summaries, cohort_df, pc, dirs, files, called>>

\* the rest of run_<engine>_analysis: the analyses on the frame read, then
\* the plots and the save of the tables, unless an analysis raises
EngineFinish(e) ==
    /\ pc = "engines"
    /\ metrics[e].st = "read"
    /\ LET r == engine_result(e, metrics[e].rows)
       IN  /\ metrics' = [metrics EXCEPT ![e].st = r.st, ![e].result = r]
           /\ files' = IF r.st = "done" /\ CanWrite(engine_writes(e), dirs)
                       THEN write_files(files, engine_writes(e))
                       ELSE files
    /\ UNCHANGED <<csv, raw_df, proc_ok, df, summaries, cohort_df, pc, dirs, called>>

CohortEngine == EngineFinish("cohort")

SegmentEngine == EngineFinish("segment")

ChannelEngine == EngineFinish("channel")

NextEngines == ReadCleanedData \/ CohortEngine \/ SegmentEngine \/ ChannelEngine

SpecEngines == InitEngines /\ [][NextEngines]_vars

----------------------------------------------------------------------------
(* Absent cells of the cohort matrices *)

CohortMatrices == {"retention", "conversion", "roi"}

\* C20: in the retention, conversion and ROI matrices of
\* calculate_cohort_metrics a (Cohort_Month, Months_Since_First_Campaign)
\* pair with no record is an absent cell, never the number 0: a cell holds
\* a number only if at least one record falls in its pair.
C20_EmptyBucketsAreAbsent ==
    (pc = "cohort_analyzer" /\ metrics.st = "done") =>
        \A c \in metrics.index : \A o \in metrics.columns :
            \A m \in CohortMatrices :
                /\ Bucket(cohort_df.rows, c, o) = {} => metrics[m][c, o] = Absent
                /\ metrics[m][c, o].t = "num" => Bucket(cohort_df.rows, c, o) # {}

\* C20 witness: matrices with two cohort months and two offsets in which a
\* pair without records stands next to pairs with records
C20_Witness ==
    /\ pc = "cohort_analyzer" /\ metrics.st = "done"
    /\ Cardinality(metrics.index) >= 2
    /\ Cardinality(metrics.columns) >= 2
    /\ \E c \in metrics.index : \E o \in metrics.columns :
          /\ Bucket(cohort_df.rows, c, o) = {}
          /\ metrics.retention[c, o] = Absent
          /\ metrics.roi[c, o] = Absent
          /\ metrics.retention[c, 0].t = "num"
          /\ metrics.conversion[c, 0].t = "num"

----------------------------------------------------------------------------
(* The cleaning summary, and the imputation of missing values *)

\* the records of `rows` that repeat the Campaign_ID of an earlier record
LaterDuplicates(rows) ==
    {i \in DOMAIN rows : \E j \in 1..(i - 1) : rows[j].Campaign_ID = rows[i].Campaign_ID}

\* C21: the cleaning summary is consistent with the data: initial_rows is
\* the number of input records, final_rows the number of records returned,
\* rows_removed their difference, which is the number of records dropped
\* as later duplicates of a Campaign_ID.
C21_SummaryConsistent ==
    (pc = "cleaner" /\ Len(summaries) >= 1) =>
        /\ summaries[1].initial_rows = Len(raw_df.rows)
        /\ summaries[1].rows_removed = Cardinality(LaterDuplicates(raw_df.rows))
        /\ summaries[Len(summaries)].final_rows = Len(df.rows)
        /\ \A k \in DOMAIN summaries :
              /\ summaries[k].rows_removed =
                    summaries[k].initial_rows - summaries[k].final_rows
              /\ k > 1 => summaries[k].initial_rows = summaries[k - 1].final_rows

\* C21 witness: one run that dropped a later duplicate and kept a record
C21_Witness ==
    /\ pc = "cleaner"
    /\ Len(summaries) = 1
    /\ summaries[1].initial_rows = 2
    /\ summaries[1].rows_removed = 1
    /\ Len(df.rows) = 1

\* C22 (as claimed): handle_missing_values replaces every missing cell of a
\* numeric field by the median of the non-missing values of its column over
\* the whole input, every missing cell of a categorical field by "Unknown",
\* leaves every other cell unchanged, and afterwards none of these fields
\* has a missing cell.
C22_MissingValuesFilledAsClaimed ==
    (pc = "cleaner" /\ Len(summaries) >= 1) =>
        LET inp == raw_df.rows
            out == handle_missing_values(inp)
        IN  \A i \in DOMAIN inp :
                /\ \A c \in numeric_columns :
                      /\ IsNum(out[i][c])
                      /\ IsMissing(inp[i][c]) => out[i][c] = median(inp, c)
                      /\ ~IsMissing(inp[i][c]) => out[i][c] = inp[i][c]
                /\ \A c \in categorical_columns :
                      /\ out[i][c] # <<>>
                      /\ inp[i][c] = <<>> => out[i][c] = Unknown
                      /\ inp[i][c] # <<>> => out[i][c] = inp[i][c]

\* C23 (as claimed): wherever the Cleaner divides by Impressions,
\* Impressions is greater than 0: every record clean_data returns has an
\* Engagement_Rate that is Clicks / Impressions with Impressions > 0, a
\* finite number.
C23_ImpressionsPositiveAsClaimed ==
    (pc = "cleaner" /\ AfterClean) =>
        \A i \in DOMAIN df.rows :
            /\ IsNum(df.rows[i].Impressions)
            /\ df.rows[i].Impressions.v > 0
            /\ df.rows[i].Engagement_Rate.t = "num"

\* C24 (as claimed): once the Loader has accepted the file, clean_data
\* never ends in failure: it returns a dataset with a summary, and no
\* record is rejected for a bad value (every Campaign_ID of the loaded
\* data is in the cleaned data).
C24_CleanNeverFailsAsClaimed ==
    "clean" \in called =>
        /\ df.st = "df"
        /\ Len(summaries) = 1
        /\ \A i \in DOMAIN raw_df.rows :
              \E j \in DOMAIN df.rows :
                  df.rows[j].Campaign_ID = raw_df.rows[i].Campaign_ID


----------------------------------------------------------------------------
(* float64 arithmetic on non-negative numbers.  A float is [m, e]: m the  *)
(* 53 bits of its significand, most significant first, and e the exponent *)
(* of the last bit, so that its value is m * 2^e; zero has m = <<>>.      *)
(* Sums and quotients are computed exactly on the bits, eight at a time,  *)
(* and then rounded to nearest, ties to even.                             *)

Precision == 53

\* zero bits appended by a division before the quotient is rounded
ExtraBits == 40

Zeros(n) == [i \in 1..n |-> 0]

\* the bits of k > 0, most significant first
Bits(k) ==
    LET n == CHOOSE n \in 1..31 : 2^(n - 1) <= k /\ (n = 31 \/ k < 2^n)
    IN  [i \in 1..n |-> (k \div 2^(n - i)) % 2]

StripZeros(b) ==
    LET ones == {i \in DOMAIN b : b[i] = 1}
    IN  IF ones = {} THEN <<>> ELSE SubSeq(b, Min(ones), Len(b))

\* a bit sequence as a sequence of bytes, and back
ToBytes(bits) ==
    LET b == Zeros((8 - (Len(bits) % 8)) % 8) \o bits
    IN  [j \in 1..(Len(b) \div 8) |->
            LET o == 8 * (j - 1)
            IN  128 * b[o + 1] + 64 * b[o + 2] + 32 * b[o + 3] + 16 * b[o + 4]
                + 8 * b[o + 5] + 4 * b[o + 6] + 2 * b[o + 7] + b[o + 8]]

FromBytes(bytes) ==
    [i \in 1..(8 * Len(bytes)) |-> (bytes[(i - 1) \div 8 + 1] \div 2^(7 - ((i - 1) % 8))) % 2]

\* a + b + carry for byte sequences of equal length
RECURSIVE AddBytes(_, _, _)
AddBytes(a, b, carry) ==
    IF a = <<>> THEN (IF carry = 1 THEN <<1>> ELSE <<>>)
    ELSE LET s == a[Len(a)] + b[Len(b)] + carry
         IN  Append(AddBytes(SubSeq(a, 1, Len(a) - 1), SubSeq(b, 1, Len(b) - 1), s \div 256),
                    s % 256)

\* a + b for bit sequences
AddBits(a, b) ==
    LET n == IF Len(a) > Len(b) THEN Len(a) ELSE Len(b)
    IN  StripZeros(FromBytes(AddBytes(ToBytes(Zeros(n - Len(a)) \o a),
                                      ToBytes(Zeros(n - Len(b)) \o b), 0)))

\* round to nearest, ties to even: the float of bits * 2^e, where sticky
\* says that the exact value has further non-zero bits below `bits`
RoundBits(bits, e, sticky) ==
    LET b == StripZeros(bits)
        n == Len(b)
    IN  IF b = <<>> THEN [m |-> <<>>, e |-> 0]
        ELSE IF n <= Precision
        THEN [m |-> b \o Zeros(Precision - n), e |-> e - (Precision - n)]
        ELSE LET keep  == SubSeq(b, 1, Precision)
                 guard == b[Precision + 1]
                 rest  == sticky \/ \E i \in (Precision + 2)..n : b[i] = 1
                 up    == guard = 1 /\ (rest \/ keep[Precision] = 1)
                 inc   == AddBits(keep, <<1>>)
             IN  IF ~up THEN [m |-> keep, e |-> e + (n - Precision)]
                 ELSE IF Len(inc) = Precision
                 THEN [m |-> inc, e |-> e + (n - Precision)]
                 ELSE [m |-> SubSeq(inc, 1, Precision), e |-> e + (n - Precision) + 1]

FloatOfInt(k) == IF k = 0 THEN [m |-> <<>>, e |-> 0] ELSE RoundBits(Bits(k), 0, FALSE)

\* x + y
FAdd(x, y) ==
    IF x.m = <<>> THEN y
    ELSE IF y.m = <<>> THEN x
    ELSE LET e == IF x.e < y.e THEN x.e ELSE y.e
         IN  RoundBits(AddBits(x.m \o Zeros(x.e - e), y.m \o Zeros(y.e - e)), e, FALSE)

\* long division of a byte sequence by the integer n < 2^22: [q, r]
RECURSIVE LongDiv(_, _)
LongDiv(bytes, n) ==
    IF bytes = <<>> THEN [q |-> <<>>, r |-> 0]
    ELSE LET h == LongDiv(SubSeq(bytes, 1, Len(bytes) - 1), n)
             t == 256 * h.r + bytes[Len(bytes)]
         IN  [q |-> Append(h.q, t \div n), r |-> t % n]

\* x / n for an integer n > 0
FDivInt(x, n) ==
    LET d == LongDiv(ToBytes(x.m \o Zeros(ExtraBits)), n)
    IN  RoundBits(FromBytes(d.q), x.e - ExtraBits, d.r # 0)

\* x < y
FLess(x, y) ==
    IF y.m = <<>> THEN FALSE
    ELSE IF x.m = <<>> THEN TRUE
    ELSE \/ x.e < y.e
         \/ x.e = y.e /\ \E i \in 1..Precision :
                            /\ x.m[i] < y.m[i]
                            /\ \A j \in 1..(i - 1) : x.m[j] = y.m[j]

----------------------------------------------------------------------------
(* ChannelAnalyzer.calculate_channel_recommendations                       *)

\* the float64 a cell holds: the correctly rounded quotient of its value
\* (a two-decimal number read from text, or the quotient of two whole
\* numbers computed by the Cleaner)
float_of(cell) ==
    LET f == lowest_terms(IF "n" \in DOMAIN cell THEN cell
                          ELSE [n |-> cell.v, d |-> Unit])
    IN  FDivInt(FloatOfInt(f[1]), f[2])

NoFloat == [t |-> "nan", f |-> [m |-> <<>>, e |-> 0]]

\* the sum of the numbers of column col in the rows S up to row n, added
\* one after the other in row order (as a sum of fewer than eight floats is)
RECURSIVE float_sum(_, _, _, _)
float_sum(rows, col, S, n) ==
    IF n = 0 THEN FloatOfInt(0)
    ELSE IF n \in S /\ IsNum(rows[n][col])
    THEN FAdd(float_sum(rows, col, S, n - 1), float_of(rows[n][col]))
    ELSE float_sum(rows, col, S, n - 1)

\* Series.mean(): missing cells are skipped; NaN when no cell is left
series_mean(rows, col, S) ==
    LET P == {i \in S : IsNum(rows[i][col])}
    IN  IF P = {} THEN NoFloat
        ELSE [t |-> "num", f |-> FDivInt(float_sum(rows, col, S, Len(rows)), Cardinality(P))]

\* a < b on floats: False when either is NaN
less_or_equal(a, b) == a.t = "num" /\ b.t = "num" /\ ~FLess(b.f, a.f)
less(a, b) == a.t = "num" /\ b.t = "num" /\ FLess(a.f, b.f)

\* df['Channel_Used'].unique(): a missing channel is one of the keys
unique_channels(rows) == {rows[i].Channel_Used : i \in DOMAIN rows}

\* df[df['Channel_Used'] == channel]: no row equals a missing key
channel_data(rows, ch) == IF ch = <<>> THEN {} ELSE channel_group(rows, ch)

\* The advisories are held by the fixed head of their text; the mean that the
\* text quotes is left out.
HighROI == "High ROI performer"
BelowROI == "Below average ROI"
BelowConversion == "Below average conversion rate"
HighCost == "High acquisition cost"
LowScore == "Low engagement score"
LowRate == "Low engagement rate"

\* if <condition>: recommendations[channel].append(text)
advisory_if(cond, text) == IF cond THEN <<text>> ELSE <<>>

calculate_channel_recommendations(rows) ==
    [ch \in unique_channels(rows) |->
        LET G == channel_data(rows, ch)
            A == DOMAIN rows
            avg(col) == series_mean(rows, col, G)
            all(col) == series_mean(rows, col, A)
        IN  (IF less(all("ROI"), avg("ROI")) THEN <<HighROI>> ELSE <<BelowROI>>)
            \o advisory_if(less(avg("Conversion_Rate"), all("Conversion_Rate")),
                           BelowConversion)
            \o advisory_if(less(all("Acquisition_Cost"), avg("Acquisition_Cost")),
                           HighCost)
            \o advisory_if(less(avg("Engagement_Score"), all("Engagement_Score")),
                           LowScore)
            \o advisory_if(less(avg("Engagement_Rate"), all("Engagement_Rate")),
                           LowRate)]

\* Datasets of up to MaxRecommendRows campaigns on two channels whose ROI is
\* 0.10, but for the last one, whose ROI is 0.10 or 0.20; and the datasets
\* of the sample campaigns.
MaxRecommendRows == 6

RecommendRow(id, ch, roi) ==
    [NominalRaw EXCEPT !.Campaign_ID = id, !.Channel_Used = ch, !.ROI = Num(roi),
                       !.Date = DateOf(2021, 1, id)]

RecommendRows(n, k, last) ==
    [i \in 1..n |-> RecommendRow(i, IF i <= k THEN T_Email ELSE T_YouTube,
                                 IF i = n THEN last ELSE Unit \div 10)]

RecommendInputs ==
    ChannelInputs
    \cup {clean_data(load_data(Table(required_columns, RecommendRows(n, k, last)))).df :
            n \in 1..MaxRecommendRows, k \in 0..MaxRecommendRows,
            last \in {Unit \div 10, Unit \div 5}}

InitRecommend ==
    /\ df \in RecommendInputs
    /\ metrics = [st |-> "recommend", recommendations |-> UnsetResult]
    /\ pc = "channel_analyzer"
    /\ csv = NoTable
    /\ raw_df = UnsetFrame
    /\ proc_ok = "unset"
    /\ summaries = <<>>
    /\ cohort_df = UnsetFrame
    /\ dirs = {}
    /\ files = {}
    /\ called = {}

\* recommendations = analyzer.calculate_channel_recommendations(df)
CalculateChannelRecommendations ==
    /\ pc = "channel_analyzer"
    /\ metrics.recommendations = UnsetResult
    /\ metrics' = [metrics EXCEPT !.recommendations =
                      [st |-> "done", table |-> calculate_channel_recommendations(df.rows)]]
    /\ UNCHANGED <<csv, raw_df, proc_ok, df, summaries, cohort_df, pc, dirs, files, called>>

NextRecommend == CalculateChannelRecommendations

SpecRecommend == InitRecommend /\ [][NextRecommend]_vars

RecommendationsDone == metrics.st = "recommend" /\ metrics.recommendations.st = "done"

Advisories(ch) == {metrics.recommendations.table[ch][i] :
                      i \in DOMAIN metrics.recommendations.table[ch]}

\* the mean of column col over the rows S is above (below) the mean over all
\* rows, as numbers
MeanAbove(rows, col, S) ==
    LET g == mean(rows, col, S)
        a == mean(rows, col, DOMAIN rows)
    IN  g.t = "num" /\ a.t = "num" /\ g.n * a.d > a.n * g.d
MeanBelow(rows, col, S) ==
    LET g == mean(rows, col, S)
        a == mean(rows, col, DOMAIN rows)
    IN  g.t = "num" /\ a.t = "num" /\ g.n * a.d < a.n * g.d

\* C25: every channel of the data gets exactly one ROI advisory: the 'High
\* ROI performer' text exactly when its mean ROI is above the mean ROI of
\* all records, the 'Below average ROI' text exactly when it is below.
C25_RoiAdvisoryAsClaimed ==
    RecommendationsDone =>
        /\ DOMAIN metrics.recommendations.table = unique_channels(df.rows)
        /\ \A ch \in unique_channels(df.rows) :
              LET G == channel_data(df.rows, ch)
                  t == metrics.recommendations.table[ch]
              IN  /\ Cardinality({i \in DOMAIN t : t[i] \in {HighROI, BelowROI}}) = 1
                  /\ HighROI \in Advisories(ch) <=> MeanAbove(df.rows, "ROI", G)
                  /\ BelowROI \in Advisories(ch) <=> MeanBelow(df.rows, "ROI", G)

\* the float mean of column col over the rows S is below (above) the float
\* mean over all rows
ComputedBelow(rows, col, S) ==
    LET g == series_mean(rows, col, S)
        a == series_mean(rows, col, DOMAIN rows)
    IN  g.t = "num" /\ a.t = "num" /\ FLess(g.f, a.f)
ComputedAbove(rows, col, S) ==
    LET g == series_mean(rows, col, S)
        a == series_mean(rows, col, DOMAIN rows)
    IN  g.t = "num" /\ a.t = "num" /\ FLess(a.f, g.f)

C29_SomeChannelBelowAverageAsClaimed ==
    RecommendationsDone /\ df.rows # <<>> =>
        \E ch \in DOMAIN metrics.recommendations.table : BelowROI \in Advisories(ch)


----------------------------------------------------------------------------
(* The cohort columns and the retention fractions *)

\* the monthly period k months before p
months_back(p, k) ==
    LET n == p.y * 12 + (p.m - 1) - k
    IN  [y |-> n \div 12, m |-> (n % 12) + 1]

\* the records of cohort_df of one audience
OfAudience(a) == {i \in DOMAIN cohort_df.rows : cohort_df.rows[i].Target_Audience = a}

C28_RetentionIsFractionAsClaimed ==
    (pc = "cohort_analyzer" /\ metrics.st = "done") =>
        \A c \in metrics.index : \A o \in metrics.columns :
            LET cell == metrics.retention[c, o]
            IN  cell.t = "num" => cell.d > 0 /\ cell.n > 0 /\ cell.n <= cell.d


----------------------------------------------------------------------------
(* Directories and the writes into them *)

\* the files the step at pc is about to write
PendingWrites ==
    IF pc = "summary" THEN {summary_file}
    ELSE IF pc = "cohort" THEN cohort_files
    ELSE IF pc = "segment" THEN segment_files
    ELSE IF pc = "channel" THEN channel_files
    ELSE IF pc = "dashboard" THEN {dashboard_file}
    ELSE {}

\* C30: every file write is preceded, in the same run, by the creation of
\* the directory it writes into: whatever the tree the run started from
\* (the empty one included), the directory of every file a step of
\* run_analysis_pipeline is about to write has been created, that of
\* dashboard_data.json included.
C30_DirectoryCreatedBeforeWriteAsClaimed ==
    \A f \in PendingWrites : f.dir \in dirs


====
